---- MODULE Spec2Model ----
(***************************************************************************)
(* A model of netlink-rs: the NetlinkStream dialogue of core/socket.rs     *)
(* (send, recv, the iterator) over the buffered netlink socket, the route  *)
(* client built on it, and the attribute-stream decoders.                  *)
(*                                                                         *)
(* Bytes are integers 0..255 and byte strings are sequences of them.  A    *)
(* usize that the code lets wrap below zero is an integer n < 0 standing   *)
(* for the wrapped value 2^64 + n.  A u32 that can reach 2^32 - 1 is a     *)
(* pair of 16-bit limbs [hi, lo].                                          *)
(***************************************************************************)
EXTENDS Integers, Sequences, FiniteSets, TLC

VARIABLES
    seq,                  \* NetlinkStream.seq (u32, as limbs)
    has_remaining_reads,  \* NetlinkStream.has_remaining_reads
    pid,                  \* NetlinkSocket.pid
    rbuf,                 \* unread bytes held by the BufReader
    wbuf,                 \* bytes held by the BufWriter
    rxq,                  \* datagrams queued on the socket for recv(2)
    tx,                   \* the last datagram handed to send(2)
    ret,                  \* what the last call returned
    overflow_checks,      \* build profile: arithmetic overflow panics
    aborted,              \* the program panicked
    nsent,                \* successful sends so far (33-bit, as limbs)
    nops,                 \* calls of send / list_routes so far
    want,                 \* envelopes the kernel queued for the last request
    got,                  \* envelopes recv has returned since the last send
    din,                  \* input of the function under test
    dout                  \* its output

vars == <<seq, has_remaining_reads, pid, rbuf, wbuf, rxq, tx, ret,
          overflow_checks, aborted, nsent, nops, want, got, din, dout>>

streamVars == <<seq, has_remaining_reads, pid, rbuf, wbuf, rxq, tx, ret,
                overflow_checks, aborted, nsent, nops, want, got>>

----------------------------------------------------------------------------
(* Bounds of the model *)

MaxSends == 2       \* calls of send / list_routes in one behaviour
MaxDump == 2        \* envelopes in one dump reply, before its DONE

----------------------------------------------------------------------------
(* Byte strings *)

Min(a, b) == IF a < b THEN a ELSE b

Take(s, n) == SubSeq(s, 1, Min(n, Len(s)))

Drop(s, n) == SubSeq(s, Min(n, Len(s)) + 1, Len(s))

Zeros(n) == [i \in 1..n |-> 0]

RECURSIVE Flatten(_)
Flatten(ss) == IF ss = <<>> THEN <<>> ELSE Head(ss) \o Flatten(Tail(ss))

\* bincode's fixed-width little-endian integers
LE16(n) == <<n % 256, (n \div 256) % 256>>

LE32(n) == LE16(n % 65536) \o LE16(n \div 65536)

U16At(b, i) == b[i] + 256 * b[i + 1]

U32At(b, i) == U16At(b, i) + 65536 * U16At(b, i + 2)

\* u32 values as limbs
U32Of(n) == [hi |-> n \div 65536, lo |-> n % 65536]

U32Bytes(x) == LE16(x.lo) \o LE16(x.hi)

U32IsMax(x) == x.hi = 65535 /\ x.lo = 65535

\* x + 1 in u32 arithmetic without overflow checks
U32WrappingInc(x) ==
    IF x.lo < 65535 THEN [x EXCEPT !.lo = @ + 1]
    ELSE [hi |-> (x.hi + 1) % 65536, lo |-> 0]

\* the ghost count of sends does not wrap
CountInc(x) ==
    IF x.lo < 65535 THEN [x EXCEPT !.lo = @ + 1]
    ELSE [hi |-> x.hi + 1, lo |-> 0]

----------------------------------------------------------------------------
(* bytes/align.rs *)

ALIGN_TO == 4

aligned_size(val) == ((val + ALIGN_TO - 1) \div ALIGN_TO) * ALIGN_TO

\* size_of::<NetlinkHeader>(): u32, u16, u16, u32, u32 under repr(C)
SizeOfNetlinkHeader == 16

HeaderLen == aligned_size(SizeOfNetlinkHeader)

\* serialize_aligned on the bincode bytes of a value whose type has size_of
\* = size: pads to aligned_size_of::<T>().  The subtraction is on usize.
PaddingLen(bytes, size) == aligned_size(size) - Len(bytes)

\* a serialization that leaves the padding out
serialize_unpadded(bytes, size) == [ok |-> TRUE, bytes |-> bytes]

serialize_aligned(bytes, size) ==
    IF PaddingLen(bytes, size) >= 0
    THEN [ok |-> TRUE, bytes |-> bytes \o Zeros(PaddingLen(bytes, size))]
    ELSE [ok |-> FALSE, bytes |-> bytes]

----------------------------------------------------------------------------
(* core/types.rs *)

MsgNoop == 1
MsgError == 2
MsgDone == 3
MsgOverrun == 4

FlagRequest == 1
FlagMulti == 2
FlagDump == 768

\* a | b for two flag words with disjoint bits
BitOrDisjoint(a, b) == a + b

\* self.flags & flags == flags, for a single-bit flag
has_flags(flags, bit) == (flags \div bit) % 2 = 1

has_type(typ, t) == typ = t

\* bincode::serialize(&NetlinkHeader): fields in declaration order
SerializeHeader(len, typ, flags, sq, p) ==
    LE32(len) \o LE16(typ) \o LE16(flags) \o U32Bytes(sq) \o LE32(p)

\* bincode::deserialize::<NetlinkHeader>(buf)
DeserializeHeader(buf) ==
    [len |-> U32At(buf, 1), typ |-> U16At(buf, 5), flags |-> U16At(buf, 7)]

----------------------------------------------------------------------------
(* std::io::BufReader<NetlinkSocket> and std::io::BufWriter<NetlinkSocket> *)

\* BufReader::new and BufWriter::new: the default capacity
BufCap == 8192
WCap == 8192

\* NetlinkSocket::read: recv(2) on the datagram socket takes one datagram,
\* cut to the buffer's length; EAGAIN when none is queued (SOCK_NONBLOCK).
SocketRead(q, n) ==
    IF q = <<>> THEN [ok |-> FALSE, data |-> <<>>, q |-> q]
    ELSE [ok |-> TRUE, data |-> Take(Head(q), n), q |-> Tail(q)]

\* BufReader::read(buf) with buf.len() = n: one read, never a loop.  An empty
\* buffer is refilled from the socket (or bypassed by a large read); then at
\* most n buffered bytes are copied out.
ReaderRead(buf, q, n) ==
    IF buf = <<>> /\ n >= BufCap
    THEN LET r == SocketRead(q, n)
         IN  [ok |-> r.ok, data |-> r.data, buf |-> <<>>, q |-> r.q]
    ELSE LET r == IF buf # <<>> THEN [ok |-> TRUE, data |-> buf, q |-> q]
                  ELSE SocketRead(q, BufCap)
         IN  [ok |-> r.ok, data |-> Take(r.data, n),
              buf |-> Drop(r.data, n), q |-> r.q]

\* self.reader.read(buf) into a zeroed buffer of n bytes: the bytes read,
\* then the zeros the read left in place (the count is not looked at).
ReadInto(buf, q, n) ==
    LET r == ReaderRead(buf, q, n)
    IN  [ok |-> r.ok, bytes |-> r.data \o Zeros(n - Len(r.data)),
         got |-> Len(r.data), buf |-> r.buf, q |-> r.q]

\* BufWriter::write_all(bytes) then BufWriter::flush().  sockok: whether
\* send(2) accepts the datagrams of this call.  A failed flush keeps the
\* unwritten bytes in the buffer.
WriterSend(buf, bytes, sockok) ==
    LET spare == WCap - Len(buf)
        early == Len(bytes) >= spare /\ Len(bytes) > spare /\ buf # <<>>
        buf1  == IF early THEN <<>> ELSE buf
        out1  == IF early THEN <<buf>> ELSE <<>>
        direct == Len(bytes) >= spare /\ Len(bytes) >= WCap
        buf2  == IF direct THEN buf1 ELSE buf1 \o bytes
        out2  == IF direct THEN out1 \o <<bytes>> ELSE out1
        out3  == IF buf2 # <<>> THEN out2 \o <<buf2>> ELSE out2
    IN  IF sockok \/ out3 = <<>>
        THEN [ok |-> TRUE, buf |-> <<>>, out |-> out3]
        ELSE [ok |-> FALSE, buf |-> IF early THEN buf ELSE buf2, out |-> <<>>]

----------------------------------------------------------------------------
(* What calls return *)

NoRet ==
    [op |-> "connect", kind |-> "ok", typ |-> 0, flags |-> 0, payload |-> <<>>,
     nreads |-> 0, err |-> "", routes |-> <<>>]

\* Result<Option<NetlinkMessage>>: kind is "none", "some" or "err"
RetNone(n) == [NoRet EXCEPT !.op = "recv", !.kind = "none", !.nreads = n]

RetErr(e, n) == [NoRet EXCEPT !.op = "recv", !.kind = "err", !.err = e, !.nreads = n]

\* NetlinkMessage::new(hdr.into_descriptor(), payload)
RetSome(h, payload, n) ==
    [NoRet EXCEPT !.op = "recv", !.kind = "some", !.typ = h.typ,
                  !.flags = h.flags, !.payload = payload, !.nreads = n]

----------------------------------------------------------------------------
(* NetlinkStream::recv *)

\* hdr.len as usize - aligned_size_of::<NetlinkHeader>()
PayloadLen(len) == len - HeaderLen

\* The state a call leaves: the flag, the reader, the socket queue, the
\* result, and whether it panicked.
RecvOut(hrr, buf, q, r, panic) ==
    [hrr |-> hrr, buf |-> buf, q |-> q, ret |-> r, panic |-> panic]

RecvPayload(hrr, h, buf, q) ==
    IF PayloadLen(h.len) < 0
    THEN \* overflow panic, or vec![0u8; 2^64 - k]: capacity overflow
         RecvOut(hrr, buf, q, RetErr("panic", 1), TRUE)
    ELSE LET p == ReadInto(buf, q, PayloadLen(h.len))
         IN  IF ~p.ok
             THEN RecvOut(hrr, p.buf, p.q, RetErr("ErrReadSocket", 2), FALSE)
             ELSE RecvOut(hrr, p.buf, p.q, RetSome(h, p.bytes, 2), FALSE)

\* recv once has_remaining_reads has let it through
RecvRead(hrr, buf, q) ==
    LET r == ReadInto(buf, q, HeaderLen)
        h == DeserializeHeader(r.bytes)
        hrr1 == IF has_flags(h.flags, FlagMulti) THEN TRUE ELSE hrr
    IN  IF ~r.ok
        THEN RecvOut(hrr, r.buf, r.q, RetErr("ErrReadSocket", 1), FALSE)
        ELSE IF has_type(h.typ, MsgDone)
        THEN RecvOut(FALSE, r.buf, r.q, RetNone(1), FALSE)
        ELSE IF h.len = 0
        THEN RecvOut(hrr1, r.buf, r.q, RetSome(h, <<>>, 1), FALSE)
        ELSE RecvPayload(hrr1, h, r.buf, r.q)

\* a recv that does not look at has_remaining_reads
recv_always_reads(hrr, buf, q) == RecvRead(hrr, buf, q)

recv(hrr, buf, q) ==
    IF ~hrr THEN RecvOut(hrr, buf, q, RetNone(0), FALSE)
    ELSE RecvRead(hrr, buf, q)

----------------------------------------------------------------------------
(* NetlinkStream::send *)

\* The header send fills in, serialized and padded
SendHeader(msg, sq, p) ==
    serialize_aligned(
        SerializeHeader(Len(msg.payload) + HeaderLen, msg.typ, msg.flags, sq, p),
        SizeOfNetlinkHeader)

SendBytes(msg, sq, p) == SendHeader(msg, sq, p).bytes \o msg.payload

\* self.seq += 1
SeqInc(sq) == U32WrappingInc(sq)

SeqOverflows(sq, checks) == checks /\ U32IsMax(sq)

----------------------------------------------------------------------------
(* The kernel's side of the socket *)

\* An envelope as the kernel lays it out: header, then payload
Envelope(typ, flags, sq, p, payload) ==
    SerializeHeader(HeaderLen + Len(payload), typ, flags, sq, p) \o payload

\* rtmsg (12 bytes) and one attribute: GATEWAY 192.168.1.1, DEST 10.0.0.0
RoutePayloadA == <<2, 0, 0, 0, 254, 3, 0, 1, 0, 0, 0, 0>> \o <<8, 0, 5, 0, 192, 168, 1, 1>>

RoutePayloadB == <<2, 8, 0, 0, 254, 2, 253, 1, 0, 0, 0, 0>> \o <<8, 0, 1, 0, 10, 0, 0, 0>>

\* the i-th envelope of a dump: RTM_NEWROUTE with MULTI set
DumpEnvelope(i, sq, p) ==
    Envelope(24, FlagMulti, sq, p, IF i % 2 = 1 THEN RoutePayloadA ELSE RoutePayloadB)

\* a reply that is not part of a multipart sequence
SingleEnvelope(sq, p) == Envelope(24, 0, sq, p, RoutePayloadA)

\* NLMSG_ERROR: errno -1, then the header of the request
ErrorEnvelope(sq, p) ==
    Envelope(MsgError, 0, sq, p,
             <<255, 255, 255, 255>> \o SerializeHeader(28, 26, 769, sq, p))

\* NLMSG_DONE, bare or carrying the dump's 4-byte status
DoneEnvelope(status, sq, p) == Envelope(MsgDone, FlagMulti, sq, p, status)

DoneStatuses == {<<>>, <<0, 0, 0, 0>>}

DumpList(n, status, sq, p) ==
    [i \in 1..n |-> DumpEnvelope(i, sq, p)] \o <<DoneEnvelope(status, sq, p)>>

\* The datagrams that answer one request: nothing, one envelope, an error,
\* a dump of n envelopes and DONE in one datagram, or the longest dump with
\* one datagram per envelope.
Replies(sq, p) ==
    {<<>>, <<SingleEnvelope(sq, p)>>, <<ErrorEnvelope(sq, p)>>}
    \cup {<<Flatten(DumpList(n, st, sq, p))>> : n \in 0..MaxDump, st \in DoneStatuses}
    \cup {DumpList(MaxDump, st, sq, p) : st \in DoneStatuses}

----------------------------------------------------------------------------
(* bytes/reader.rs: SliceReader over (slice, cursor) *)

DecOk(bytes, cursor) == [kind |-> "ok", err |-> "", bytes |-> bytes, cursor |-> cursor]

DecErr(e, cursor) == [kind |-> "err", err |-> e, bytes |-> <<>>, cursor |-> cursor]

DecPanic(cursor) == [kind |-> "panic", err |-> "panic", bytes |-> <<>>, cursor |-> cursor]

\* SliceReader::take(len).  len < 0 is a wrapped usize: cursor + len then
\* overflows (a panic with overflow checks; without them the sum wraps past
\* the bound check and the slice index start > end panics), unless the sum
\* stays below 2^64, which is past the end of any slice.
\* a take that hands out what is left of the slice when len overruns it
take_clamped(slice, cursor, len) ==
    IF len < 0 THEN DecPanic(cursor)
    ELSE DecOk(SubSeq(slice, cursor + 1, Min(cursor + len, Len(slice))),
               Min(cursor + len, Len(slice)))

take(slice, cursor, len) ==
    IF len < 0
    THEN IF cursor + len >= 0 THEN DecPanic(cursor) ELSE DecErr("ErrUnexpectedEof", cursor)
    ELSE IF cursor + len > Len(slice) THEN DecErr("ErrUnexpectedEof", cursor)
    ELSE DecOk(SubSeq(slice, cursor + 1, cursor + len), cursor + len)

is_empty(slice, cursor) == cursor >= Len(slice)

----------------------------------------------------------------------------
(* bytes/deserialize.rs *)

ValOk(v) == [kind |-> "ok", err |-> "", val |-> v]

ValErr(e) == [kind |-> "err", err |-> e, val |-> <<>>]

\* from_le_bytes for signed integers of 1, 2 and 4 bytes
SignedLE(b) ==
    LET n == Len(b)
        top == IF b[n] >= 128 THEN b[n] - 256 ELSE b[n]
    IN  IF n = 1 THEN top
        ELSE IF n = 2 THEN b[1] + 256 * top
        ELSE b[1] + 256 * b[2] + 65536 * b[3] + 16777216 * top

\* payload.try_into::<[u8; N]>() wants exactly N bytes
deserialize_i8(payload) ==
    IF Len(payload) = 1 THEN ValOk(SignedLE(payload)) ELSE ValErr("ErrUnexpectedEof")

deserialize_i16(payload) ==
    IF Len(payload) = 2 THEN ValOk(SignedLE(payload)) ELSE ValErr("ErrUnexpectedEof")

deserialize_i32(payload) ==
    IF Len(payload) = 4 THEN ValOk(SignedLE(payload)) ELSE ValErr("ErrUnexpectedEof")

\* 16 bytes are an Ipv6Addr; anything else goes to bincode's Ipv4Addr, which
\* reads four bytes and ignores what follows them
deserialize_ip_addr(payload) ==
    IF Len(payload) = 16 THEN ValOk([v |-> 6, octets |-> payload])
    ELSE IF Len(payload) >= 4 THEN ValOk([v |-> 4, octets |-> SubSeq(payload, 1, 4)])
    ELSE ValErr("ErrDeserialize")

----------------------------------------------------------------------------
(* route/route/types.rs *)

\* size_of::<RouteMessage>(): nine u8 fields
SizeOfRouteMessage == 9

\* size_of::<AttrHeader<RouteAttrType>>(): u16 and a repr(u16) enum
SizeOfAttrHeader == 4

\* the discriminants of RouteAttrType
RouteAttrTypes == 0..23

RouteIpTags == {1, 2, 5, 7, 19}
RouteI32Tags == {3, 4, 6, 8, 11, 15, 16, 23}

\* RouteAttrValue::deserialize(typ, payload): the variant is the tag
RouteAttrValue_deserialize(typ, payload) ==
    LET r == IF typ \in RouteIpTags THEN deserialize_ip_addr(payload)
             ELSE IF typ \in RouteI32Tags THEN deserialize_i32(payload)
             ELSE IF typ = 20 THEN deserialize_i8(payload)
             ELSE IF typ = 21 THEN deserialize_i16(payload)
             ELSE IF typ = 0 THEN ValOk(<<>>)
             ELSE ValOk(payload)
    IN  IF r.kind = "ok" THEN ValOk([tag |-> typ, v |-> r.val]) ELSE r

\* bincode::deserialize::<RouteMessage>: the first nine bytes, one per field
DeserializeRouteMessage(b) ==
    [family |-> b[1], dst_len |-> b[2], src_len |-> b[3], tos |-> b[4],
     table |-> b[5], protocol |-> b[6], scope |-> b[7], typ |-> b[8], flags |-> b[9]]

\* bincode::serialize(&RouteMessage)
SerializeRouteMessage(m) ==
    <<m.family, m.dst_len, m.src_len, m.tos, m.table, m.protocol, m.scope, m.typ, m.flags>>

\* bincode::deserialize::<AttrHeader<RouteAttrType>>: Deserialize_repr
\* rejects a tag that is no discriminant
DeserializeRouteAttrHeader(b) ==
    IF U16At(b, 3) \in RouteAttrTypes
    THEN [kind |-> "ok", err |-> "", len |-> U16At(b, 1), typ |-> U16At(b, 3)]
    ELSE [kind |-> "err", err |-> "ErrDeserialize", len |-> 0, typ |-> 0]

----------------------------------------------------------------------------
(* route/route/client.rs *)

AF_INET == 2

RtOut(kind, err, rtmsg, attrs, cursor) ==
    [kind |-> kind, err |-> err, rtmsg |-> rtmsg, attrs |-> attrs, cursor |-> cursor]

\* aligned_size(hdr.len as usize) - aligned_size_of::<RouteAttrHeader>()
ValueLen(len) == aligned_size(len) - aligned_size(SizeOfAttrHeader)

\* the loop of read_rtmsg: while !reader.is_empty() { ... }
RECURSIVE ReadRouteAttrs(_, _, _, _, _)
ReadRouteAttrs(slice, cursor, rtmsg, attrs, checks) ==
    IF is_empty(slice, cursor) THEN RtOut("ok", "", rtmsg, attrs, cursor)
    ELSE LET t == take(slice, cursor, aligned_size(SizeOfAttrHeader))
             h == DeserializeRouteAttrHeader(t.bytes)
             b == take(slice, t.cursor, ValueLen(h.len))
             v == RouteAttrValue_deserialize(h.typ, b.bytes)
         IN  IF t.kind # "ok" THEN RtOut(t.kind, t.err, rtmsg, attrs, t.cursor)
             ELSE IF h.kind # "ok" THEN RtOut("err", h.err, rtmsg, attrs, t.cursor)
             ELSE IF ValueLen(h.len) < 0 /\ checks THEN RtOut("panic", "panic", rtmsg, attrs, t.cursor)
             ELSE IF b.kind # "ok" THEN RtOut(b.kind, b.err, rtmsg, attrs, b.cursor)
             ELSE IF v.kind # "ok" THEN RtOut("err", v.err, rtmsg, attrs, b.cursor)
             ELSE ReadRouteAttrs(slice, b.cursor, rtmsg, Append(attrs, v.val), checks)

read_rtmsg(payload, checks) ==
    LET t == take(payload, 0, aligned_size(SizeOfRouteMessage))
    IN  IF t.kind # "ok" THEN RtOut(t.kind, t.err, <<>>, <<>>, t.cursor)
        ELSE ReadRouteAttrs(payload, t.cursor, DeserializeRouteMessage(t.bytes), <<>>, checks)

NoneVal == [some |-> FALSE, v |-> <<>>]

SomeVal(x) == [some |-> TRUE, v |-> x]

NewRoute(msg) ==
    [table |-> msg.table, protocol |-> msg.protocol, scope |-> msg.scope,
     priority |-> NoneVal, gateway |-> NoneVal, dest |-> NoneVal, source |-> NoneVal,
     preferred_source |-> NoneVal, output_interface_index |-> NoneVal]

\* one turn of build_route's match
RouteSet(route, attr) ==
    IF attr.tag = 1 THEN [route EXCEPT !.dest = SomeVal(attr.v)]
    ELSE IF attr.tag = 7 THEN [route EXCEPT !.preferred_source = SomeVal(attr.v)]
    ELSE IF attr.tag = 4 THEN [route EXCEPT !.output_interface_index = SomeVal(attr.v)]
    ELSE IF attr.tag = 6 THEN [route EXCEPT !.priority = SomeVal(attr.v)]
    ELSE IF attr.tag = 5 THEN [route EXCEPT !.gateway = SomeVal(attr.v)]
    ELSE route

RECURSIVE RouteFold(_, _)
RouteFold(route, attrs) ==
    IF attrs = <<>> THEN route ELSE RouteFold(RouteSet(route, Head(attrs)), Tail(attrs))

build_route(msg, attrs) == RouteFold(NewRoute(msg), attrs)

\* list_routes on one envelope: read_rtmsg(&msg)? and then build_route
RouteOf(m) ==
    IF m.kind = "ok" THEN SomeVal(build_route(m.rtmsg, m.attrs)) ELSE NoneVal

----------------------------------------------------------------------------
(* The dialogue *)

\* the port id the kernel gave the socket at bind
Pids == {300}

\* NetlinkMessage::builder().typ(t).flags(f).append_slice(payload).build()
Message(typ, flags, payload) == [typ |-> typ, flags |-> flags, payload |-> payload]

\* messages a caller hands to send: typ, flags and a payload of its making
SendMsgs == {Message(20, 1, <<2, 24, 0, 0, 1>>)}

\* the request of list_routes: RouteMessage with family AF_INET, appended
\* through serialize_aligned, typ GetRoute, flags Request | Dump
GetRoute == 26

ListRoutesMsg ==
    Message(GetRoute, BitOrDisjoint(FlagRequest, FlagDump),
            serialize_aligned(
                SerializeRouteMessage([DeserializeRouteMessage(Zeros(9)) EXCEPT !.family = AF_INET]),
                SizeOfRouteMessage).bytes)

\* the envelopes of a reply before its DONE, as recv should hand them out
EnvOf(bytes) ==
    [typ |-> U16At(bytes, 5), flags |-> U16At(bytes, 7), payload |-> Drop(bytes, HeaderLen)]

RECURSIVE SplitEnvelopes(_)
SplitEnvelopes(bytes) ==
    IF Len(bytes) < HeaderLen \/ U16At(bytes, 5) = MsgDone THEN <<>>
    ELSE <<EnvOf(Take(bytes, U32At(bytes, 1)))>> \o SplitEnvelopes(Drop(bytes, U32At(bytes, 1)))

Emitted(reply) == SplitEnvelopes(Flatten(reply))

\* the last envelope of a byte string of envelopes laid end to end
RECURSIVE LastEnvelope(_)
LastEnvelope(bytes) ==
    IF Len(bytes) <= U32At(bytes, 1) \/ U32At(bytes, 1) < HeaderLen THEN bytes
    ELSE LastEnvelope(Drop(bytes, U32At(bytes, 1)))

\* the reply is a multipart sequence closed by DONE
EndsWithDone(reply) ==
    reply # <<>> /\ U16At(LastEnvelope(Flatten(reply)), 5) = MsgDone

\* a send that advances the dialogue before it writes: the counter and the
\* flag change whether or not the transport took the bytes
send_counting_failures(msg, sockok, reply) ==
    LET w == WriterSend(wbuf, SendBytes(msg, seq, pid), sockok)
    IN  [kind |-> IF w.ok THEN "ok" ELSE "err",
         err |-> IF w.ok THEN "" ELSE "ErrWriteSocket",
         seq |-> SeqInc(seq), hrr |-> TRUE, wbuf |-> w.buf,
         rxq |-> IF w.ok THEN rxq \o reply ELSE rxq,
         tx |-> IF w.ok THEN w.out ELSE tx,
         nsent |-> IF w.ok THEN CountInc(nsent) ELSE nsent,
         want |-> IF w.ok THEN [clean |-> rxq = <<>>, done |-> EndsWithDone(reply),
                                envs |-> Emitted(reply)]
                  ELSE want,
         got |-> IF w.ok THEN <<>> ELSE got]

\* NetlinkStream::send as a function of the stream: the write fails
\* (sockok = FALSE) or the kernel queues reply
send(msg, sockok, reply) ==
    LET w == WriterSend(wbuf, SendBytes(msg, seq, pid), sockok)
        base == [kind |-> "ok", err |-> "", seq |-> seq, hrr |-> has_remaining_reads,
                 wbuf |-> w.buf, rxq |-> rxq, tx |-> tx, nsent |-> nsent,
                 want |-> want, got |-> got]
        wire == [base EXCEPT !.tx = w.out, !.rxq = rxq \o reply, !.nsent = CountInc(nsent),
                             !.want = [clean |-> rxq = <<>>, done |-> EndsWithDone(reply),
                                       envs |-> Emitted(reply)],
                             !.got = <<>>]
    IN  IF ~w.ok THEN [base EXCEPT !.kind = "err", !.err = "ErrWriteSocket"]
        ELSE IF SeqOverflows(seq, overflow_checks)
        THEN [wire EXCEPT !.kind = "panic", !.err = "panic"]
        ELSE [wire EXCEPT !.seq = SeqInc(seq), !.hrr = TRUE]

\* the loop of list_routes: while let Ok(Some(msg)) = self.recv()
ListOut(kind, err, routes, r, g) ==
    [kind |-> kind, err |-> err, routes |-> routes, hrr |-> r.hrr, buf |-> r.buf,
     q |-> r.q, got |-> g]

\* One turn of the loop on r, what recv returned, and on m, what read_rtmsg
\* made of its payload.  The turns take r and m as bound values, so each is
\* computed once.
RECURSIVE ListLoop(_, _, _, _, _, _)
ListPush(r, m, routes, g, checks) ==
    IF m.kind # "ok"
    THEN ListOut(m.kind, m.err, routes, r, Append(g, [typ |-> r.ret.typ, flags |-> r.ret.flags, payload |-> r.ret.payload]))
    ELSE ListLoop(r.hrr, r.buf, r.q, Append(routes, build_route(m.rtmsg, m.attrs)),
                  Append(g, [typ |-> r.ret.typ, flags |-> r.ret.flags, payload |-> r.ret.payload]),
                  checks)

ListTurn(r, routes, g, checks) ==
    IF r.panic THEN ListOut("panic", "panic", routes, r, g)
    ELSE IF r.ret.kind # "some" THEN ListOut("ok", "", routes, r, g)
    ELSE CHOOSE out \in {ListPush(r, m, routes, g, checks) :
                             m \in {read_rtmsg(r.ret.payload, checks)}} : TRUE

ListLoop(hrr, buf, q, routes, g, checks) ==
    CHOOSE out \in {ListTurn(r, routes, g, checks) : r \in {recv(hrr, buf, q)}} : TRUE

\* no request has been answered
NoReply == [clean |-> TRUE, done |-> FALSE, envs |-> <<>>]

InitStream ==
    /\ has_remaining_reads = TRUE
    /\ pid \in Pids
    /\ rbuf = <<>>
    /\ wbuf = <<>>
    /\ rxq = <<>>
    /\ tx = <<>>
    /\ overflow_checks \in BOOLEAN
    /\ aborted = FALSE
    /\ nops = 0
    /\ want = NoReply
    /\ got = <<>>

\* no function is under test in the dialogue
NoInput == [fn |-> "none", attrs |-> <<>>, payload |-> <<>>, ptr |-> 8, lattrs |-> <<>>,
            hdr |-> <<>>, typ |-> <<>>, value |-> <<>>,
            vals |-> <<>>]

NoOutput == [done |-> FALSE, r |-> <<>>, route |-> [some |-> FALSE, v |-> <<>>]]

Init ==
    /\ InitStream
    /\ ret = NoRet
    /\ seq = U32Of(0)
    /\ nsent = U32Of(0)
    /\ din = NoInput
    /\ dout = NoOutput

SendRet(s) == [NoRet EXCEPT !.op = "send", !.kind = IF s.kind = "ok" THEN "ok" ELSE "err", !.err = s.err]

Send(msg, sockok, reply) ==
    LET s == send(msg, sockok, reply)
    IN  /\ ~aborted
        /\ nops < MaxSends
        /\ sockok \/ reply = <<>>
        /\ nops' = nops + 1
        /\ seq' = s.seq
        /\ has_remaining_reads' = s.hrr
        /\ wbuf' = s.wbuf
        /\ rxq' = s.rxq
        /\ tx' = s.tx
        /\ nsent' = s.nsent
        /\ want' = s.want
        /\ got' = s.got
        /\ aborted' = (s.kind = "panic")
        /\ ret' = SendRet(s)
        /\ UNCHANGED <<pid, rbuf, overflow_checks, din, dout>>

SendAny ==
    \E msg \in SendMsgs, sockok \in BOOLEAN, reply \in Replies(seq, pid) :
        Send(msg, sockok, reply)

\* list_routes: send, then recv until it stops yielding Ok(Some)
ListRoutes(sockok, reply) ==
    \E s \in {send(ListRoutesMsg, sockok, reply)} :
    \E l \in {IF s.kind = "ok"
               THEN ListLoop(s.hrr, rbuf, s.rxq, <<>>, <<>>, overflow_checks)
               ELSE ListOut(s.kind, s.err, <<>>, [hrr |-> s.hrr, buf |-> rbuf, q |-> s.rxq], s.got)} :
        /\ ~aborted
        /\ nops < MaxSends
        /\ sockok \/ reply = <<>>
        /\ nops' = nops + 1
        /\ seq' = s.seq
        /\ wbuf' = s.wbuf
        /\ tx' = s.tx
        /\ nsent' = s.nsent
        /\ want' = s.want
        /\ ret' = [NoRet EXCEPT !.op = "list_routes",
                                !.kind = IF l.kind = "ok" THEN "ok" ELSE "err",
                                !.err = l.err,
                                !.routes = IF l.kind = "ok" THEN l.routes ELSE <<>>]
        /\ aborted' = (l.kind = "panic")
        /\ has_remaining_reads' = l.hrr
        /\ rbuf' = l.buf
        /\ rxq' = l.q
        /\ got' = l.got
        /\ UNCHANGED <<pid, overflow_checks, din, dout>>

ListRoutesAny ==
    \E sockok \in BOOLEAN, reply \in Replies(seq, pid) : ListRoutes(sockok, reply)

GotNext(r) ==
    IF r.ret.kind = "some"
    THEN Append(got, [typ |-> r.ret.typ, flags |-> r.ret.flags, payload |-> r.ret.payload])
    ELSE got

Recv ==
    \E r \in {recv(has_remaining_reads, rbuf, rxq)} :
        /\ ~aborted
        /\ has_remaining_reads' = r.hrr
        /\ rbuf' = r.buf
        /\ rxq' = r.q
        /\ ret' = r.ret
        /\ aborted' = r.panic
        /\ got' = GotNext(r)
        /\ UNCHANGED <<seq, pid, wbuf, tx, overflow_checks, nsent, nops, want, din, dout>>

\* Iterator::next: self.recv().transpose(), the same call with its result
\* turned from Result<Option<_>> into Option<Result<_>>
IterNext == Recv

Next ==
    \/ SendAny
    \/ ListRoutesAny
    \/ Recv
    \/ IterNext

Spec == Init /\ [][Next]_vars

----------------------------------------------------------------------------
(* The dialogue once the counter has reached its last value *)

U32Max == [hi |-> 65535, lo |-> 65535]

\* the stream after 2^32 - 1 successful sends whose replies have been read
InitWrap ==
    /\ InitStream
    /\ ret = [NoRet EXCEPT !.op = "send"]
    /\ seq = U32Max
    /\ nsent = U32Max
    /\ din = NoInput
    /\ dout = NoOutput

SpecWrap == InitWrap /\ [][Next]_vars

----------------------------------------------------------------------------
(* core/messages.rs *)

PointerSizes == {4, 8}

\* aligned_size_of_val(val: &T): size_of_val(&val) is the size of the
\* reference val, whatever T is
aligned_size_of_val(ptr) == ((ptr + ALIGN_TO - 1) \div ALIGN_TO) * ALIGN_TO

\* NetlinkMessageBuilder::build with the payload's bincode bytes; typ, flags,
\* seq and pid left unset
messages_build(payload, ptr) ==
    [header |-> [len |-> aligned_size_of_val(ptr) + aligned_size(SizeOfNetlinkHeader),
                 typ |-> 0, flags |-> 0, seq |-> 0, pid |-> 0],
     payload |-> payload]

----------------------------------------------------------------------------
(* bytes/deserialize.rs, continued; route/link/types.rs *)

\* deserialize_u32: payload.try_into::<[u8; 4]>(), then from_le_bytes; the
\* value stays a pair of 16-bit limbs
deserialize_u32(payload) ==
    IF Len(payload) = 4
    THEN ValOk([hi |-> U16At(payload, 3), lo |-> U16At(payload, 1)])
    ELSE ValErr("ErrUnexpectedEof")

\* String::from_utf8_lossy over bytes that are ASCII or can start no UTF-8
\* sequence (0xF8..0xFF): a string is the sequence of its code points, and
\* each such byte becomes U+FFFD
from_utf8_lossy(payload) ==
    [i \in 1..Len(payload) |-> IF payload[i] < 128 THEN payload[i] ELSE 65533]

\* str::trim_matches(c): the matches of c at the start and at the end go
RECURSIVE trim_start_matches(_, _)
trim_start_matches(s, c) ==
    IF s # <<>> /\ s[1] = c THEN trim_start_matches(Tail(s), c) ELSE s

RECURSIVE trim_end_matches(_, _)
trim_end_matches(s, c) ==
    IF s # <<>> /\ s[Len(s)] = c THEN trim_end_matches(SubSeq(s, 1, Len(s) - 1), c) ELSE s

trim_matches(s, c) == trim_end_matches(trim_start_matches(s, c), c)

deserialize_ascii(payload) == trim_matches(from_utf8_lossy(payload), 0)

\* deserialize_val::<T>(payload) for a struct T of size bytes
deserialize_val(payload, size) ==
    IF Len(payload) >= size THEN ValOk(SubSeq(payload, 1, size)) ELSE ValErr("ErrDeserialize")

\* size_of::<LinkStats>() and size_of::<Stats64>()
SizeOfLinkStats == 96
SizeOfStats64 == 200

\* the variants of LinkAttrType in the order the enum declares them; it gives
\* no variant a discriminant, so each has its position, from 0
LinkAttrTypes ==
    <<"Unspec", "Address", "Broadcast", "InterfaceName",
      "MaxTransmissionUnit", "Link", "QueueingDiscipline", "Stats",
      "Cost", "Priority", "Master", "Wireless",
      "Protinfo", "TransmissionQueueLen", "Map", "Weight",
      "Operstate", "Linkmode", "LinkInfo", "NetNsPid",
      "InterfaceAlias", "NumVf", "VfinfoList", "Stats64",
      "VfPorts", "PortSelf", "AfSpec", "Group",
      "NetNsFd", "ExtMask", "Promiscuity", "NumTxQueues",
      "NumRxQueues", "Carrier", "PhysPortId", "CarrierChanges",
      "PhysSwitchId", "LinkNetnsid", "PhysPortName", "ProtoDown",
      "GsoMaxSegs", "GsoMaxSize", "Pad", "Xdp",
      "Event", "NewNetnsid", "IfNetnsid", "TargetNetnsid",
      "CarrierUpCount", "CarrierDownCount", "NewInterfaceIndex", "MinMtu",
      "MaxMtu", "PropList", "AltInterfaceName", "PermAddress",
      "ProtoDownReason", "ParentDevName", "ParentDevBusName", "GroMaxSize",
      "TsoMaxSize", "TsoMaxSegs", "AllMulti">>

LinkAttrDiscriminant(t) == (CHOOSE i \in 1..Len(LinkAttrTypes) : LinkAttrTypes[i] = t) - 1

\* impl From<LinkAttrType> for u16, the arms in the order of the variants
LinkAttrTypeU16 ==
    <<0, 1, 2, 3, 4, 5, 6, 7, 8, 9, 10, 11, 12, 13, 14, 15,
      16, 17, 18, 19, 20, 21, 22, 23, 24, 25, 26, 27, 28, 29, 30, 31,
      32, 33, 34, 35, 36, 37, 38, 39, 40, 41, 42, 43, 44, 45, 46, 46,
      47, 48, 49, 50, 51, 52, 53, 54, 55, 56, 57, 58, 59, 60, 61>>

LinkAttrType_into_u16(t) == LinkAttrTypeU16[LinkAttrDiscriminant(t) + 1]

\* Serialize_repr writes the discriminant as a u16
SerializeLinkAttrType(t) == LE16(LinkAttrDiscriminant(t))

\* Deserialize_repr reads a u16 and takes the variant with that discriminant
DeserializeLinkAttrType(n) ==
    IF n < Len(LinkAttrTypes) THEN ValOk(LinkAttrTypes[n + 1]) ELSE ValErr("ErrDeserialize")

LinkIpTypes == {"Address", "PermAddress"}

LinkAsciiTypes ==
    {"InterfaceName", "InterfaceAlias", "PhysPortName", "AltInterfaceName",
     "ParentDevName", "ParentDevBusName"}

LinkU32Types ==
    {"MaxTransmissionUnit", "TransmissionQueueLen", "Promiscuity", "GsoMaxSegs",
     "GsoMaxSize", "MinMtu", "MaxMtu"}

\* how LinkAttrValue::deserialize reads the payload of a variant
LinkAttrKind(t) ==
    IF t = "Unspec" THEN "unit"
    ELSE IF t \in LinkIpTypes THEN "ip"
    ELSE IF t \in LinkAsciiTypes THEN "ascii"
    ELSE IF t \in LinkU32Types THEN "u32"
    ELSE IF t = "Stats" THEN "stats"
    ELSE IF t = "Stats64" THEN "stats64"
    ELSE "bytes"

\* LinkAttrValue::deserialize(typ, payload)
LinkAttrValue_deserialize(typ, payload) ==
    LET k == LinkAttrKind(typ)
        r == IF k = "unit" THEN ValOk(<<>>)
             ELSE IF k = "ip" THEN deserialize_ip_addr(payload)
             ELSE IF k = "ascii" THEN ValOk(deserialize_ascii(payload))
             ELSE IF k = "u32" THEN deserialize_u32(payload)
             ELSE IF k = "stats" THEN deserialize_val(payload, SizeOfLinkStats)
             ELSE IF k = "stats64" THEN deserialize_val(payload, SizeOfStats64)
             ELSE ValOk(payload)
    IN  IF r.kind = "ok" THEN ValOk([variant |-> typ, kind |-> k, v |-> r.val]) ELSE r

----------------------------------------------------------------------------
(* route/link/client.rs and generic/mod.rs: link attributes *)

\* bincode::serialize(&LinkAttrHeader): len, then the tag by Serialize_repr
SerializeLinkAttrHeader(len, typ) == LE16(len % 65536) \o SerializeLinkAttrType(typ)

\* bincode::deserialize::<LinkAttrHeader>
DeserializeLinkAttrHeader(b) ==
    LET t == DeserializeLinkAttrType(U16At(b, 3))
    IN  IF t.kind = "ok"
        THEN [kind |-> "ok", err |-> "", len |-> U16At(b, 1), typ |-> t.val]
        ELSE [kind |-> "err", err |-> t.err, len |-> 0, typ |-> ""]

\* the attribute blocks of get_link: the header declares
\* aligned_size_of::<LinkAttrHeader>() + payload.len(), the payload follows
\* it, and zeros fill the block up to aligned_size(bytes.len())
link_attr_block(typ, payload) ==
    LET bytes == SerializeLinkAttrHeader(aligned_size(SizeOfAttrHeader) + Len(payload), typ)
                     \o payload
    IN  bytes \o Zeros(aligned_size(Len(bytes)) - Len(bytes))

LinkOut(kind, err, attrs, cursor) ==
    [kind |-> kind, err |-> err, attrs |-> attrs, cursor |-> cursor]

\* read_attributes(reader): while !reader.is_empty() { ... }
RECURSIVE ReadLinkAttrs(_, _, _, _)
ReadLinkAttrs(slice, cursor, attrs, checks) ==
    IF is_empty(slice, cursor) THEN LinkOut("ok", "", attrs, cursor)
    ELSE LET t == take(slice, cursor, aligned_size(SizeOfAttrHeader))
             h == DeserializeLinkAttrHeader(t.bytes)
             b == take(slice, t.cursor, ValueLen(h.len))
             v == LinkAttrValue_deserialize(h.typ, b.bytes)
         IN  IF t.kind # "ok" THEN LinkOut(t.kind, t.err, attrs, t.cursor)
             ELSE IF h.kind # "ok" THEN LinkOut("err", h.err, attrs, t.cursor)
             ELSE IF ValueLen(h.len) < 0 /\ checks THEN LinkOut("panic", "panic", attrs, t.cursor)
             ELSE IF b.kind # "ok" THEN LinkOut(b.kind, b.err, attrs, b.cursor)
             ELSE IF v.kind # "ok" THEN LinkOut("err", v.err, attrs, b.cursor)
             ELSE ReadLinkAttrs(slice, b.cursor, Append(attrs, v.val), checks)

read_attributes(slice, checks) == ReadLinkAttrs(slice, 0, <<>>, checks)

\* LinkAttrType::try_from(u16), which try_next calls through its bound
\* T: TryFrom<u16>: the variant that u16::from sends to the tag, the first
\* declared where two do
LinkAttrType_try_from(n) ==
    IF \E i \in 1..Len(LinkAttrTypeU16) : LinkAttrTypeU16[i] = n
    THEN ValOk(LinkAttrTypes[CHOOSE i \in 1..Len(LinkAttrTypeU16) :
                                 /\ LinkAttrTypeU16[i] = n
                                 /\ \A j \in 1..(i - 1) : LinkAttrTypeU16[j] # n])
    ELSE ValErr("ErrCastEnum")

NextOut(kind, err, attr, cursor) ==
    [kind |-> kind, err |-> err, attr |-> attr, cursor |-> cursor]

\* AttrSliceReader::<LinkAttrType, LinkAttrValue>::try_next over
\* (slice, cursor)
try_next(slice, cursor, checks) ==
    IF is_empty(slice, cursor) THEN NextOut("none", "", <<>>, cursor)
    ELSE LET t == take(slice, cursor, aligned_size(SizeOfAttrHeader))
             nla_len == U16At(t.bytes, 1)
             typ == LinkAttrType_try_from(U16At(t.bytes, 3))
             len == aligned_size(nla_len - aligned_size(SizeOfAttrHeader))
             b == take(slice, t.cursor, len)
             v == LinkAttrValue_deserialize(typ.val, b.bytes)
         IN  IF t.kind # "ok" THEN NextOut(t.kind, t.err, <<>>, t.cursor)
             ELSE IF typ.kind # "ok" THEN NextOut("err", "ErrUnexpectedEof", <<>>, t.cursor)
             ELSE IF nla_len < aligned_size(SizeOfAttrHeader) /\ checks
                  THEN NextOut("panic", "panic", <<>>, t.cursor)
             ELSE IF b.kind # "ok" THEN NextOut(b.kind, b.err, <<>>, b.cursor)
             ELSE IF v.kind # "ok" THEN NextOut("err", v.err, <<>>, b.cursor)
             ELSE NextOut("some", "", [nla_len |-> nla_len, payload |-> v.val], b.cursor)

\* AttrReader::read_all: while let Ok(Some(attr)) = self.try_next(); an
\* error ends the loop like the end of the slice does
RECURSIVE ReadAll(_, _, _, _)
ReadAll(slice, cursor, attrs, checks) ==
    LET n == CHOOSE out \in {try_next(slice, c, checks) : c \in {cursor}} : TRUE
    IN  IF n.kind = "some" THEN ReadAll(slice, n.cursor, Append(attrs, n.attr), checks)
        ELSE IF n.kind = "panic" THEN LinkOut("panic", "panic", attrs, n.cursor)
        ELSE LinkOut("ok", "", attrs, n.cursor)

read_all(slice, checks) == ReadAll(slice, 0, <<>>, checks)

----------------------------------------------------------------------------
(* route/link: the link header and the Link record *)

\* size_of::<InterfaceInfoMessage>() under repr(C): u8, a byte of padding,
\* u16, i32, u32, u32
SizeOfInterfaceInfoMessage == 16

InterfaceInfoMessage(family, typ, index, flags, change) ==
    [family |-> family, typ |-> typ, index |-> index, flags |-> flags, change |-> change]

\* bincode::serialize(&InterfaceInfoMessage): the fields one after another
\* in their fixed widths, 15 bytes
SerializeInterfaceInfoMessage(m) ==
    <<m.family>> \o LE16(m.typ) \o LE32(m.index) \o U32Bytes(m.flags) \o U32Bytes(m.change)

\* bincode::deserialize::<InterfaceInfoMessage>: the first 15 bytes
DeserializeInterfaceInfoMessage(b) ==
    InterfaceInfoMessage(b[1], U16At(b, 2), SignedLE(SubSeq(b, 4, 7)),
                         [hi |-> U16At(b, 10), lo |-> U16At(b, 8)],
                         [hi |-> U16At(b, 14), lo |-> U16At(b, 12)])

\* InterfaceInfoMessage::builder().family(f).index(i).build(): the other
\* fields keep their defaults
InterfaceInfoMessageBuilder(family, index) ==
    InterfaceInfoMessage(family, 0, index, U32Of(0), U32Of(0))

\* LinkPayload::deserialize(bytes): the header, then the rest as attributes
LinkPayload_deserialize(bytes) ==
    LET t == take(bytes, 0, aligned_size(SizeOfInterfaceInfoMessage))
    IN  IF t.kind # "ok"
        THEN [kind |-> t.kind, err |-> t.err, ifinfomsg |-> <<>>, attrs |-> <<>>]
        ELSE [kind |-> "ok", err |-> "", ifinfomsg |-> DeserializeInterfaceInfoMessage(t.bytes),
              attrs |-> Drop(bytes, t.cursor)]

NewLink(ifinfomsg) ==
    [family |-> ifinfomsg.family, typ |-> ifinfomsg.typ, index |-> ifinfomsg.index,
     name |-> NoneVal, kind |-> NoneVal, addr |-> NoneVal, promiscuity |-> NoneVal,
     parent_dev_name |-> NoneVal, panicked |-> FALSE]

\* the LinkInfo arm of build_link: one nested header and its value, every
\* failure unwrapped; LinkInfoAttrValue::deserialize is unimplemented!() for
\* every sub-tag but Kind
LinkInfoKind(bytes, checks) ==
    LET t == take(bytes, 0, aligned_size(SizeOfAttrHeader))
        len == U16At(t.bytes, 1)
        typ == U16At(t.bytes, 3)
        b == take(bytes, t.cursor, ValueLen(len))
    IN  IF t.kind # "ok" THEN ValErr("panic")
        ELSE IF typ # 1 THEN ValErr("panic")
        ELSE IF ValueLen(len) < 0 /\ checks THEN ValErr("panic")
        ELSE IF b.kind # "ok" THEN ValErr("panic")
        ELSE ValOk(deserialize_ascii(b.bytes))

\* one turn of build_link's match
LinkSet(link, attr, checks) ==
    LET p == attr.payload
    IN  IF p.variant = "InterfaceName" THEN [link EXCEPT !.name = SomeVal(p.v)]
        ELSE IF p.variant = "Address" THEN [link EXCEPT !.addr = SomeVal(p.v)]
        ELSE IF p.variant = "Promiscuity" THEN [link EXCEPT !.promiscuity = SomeVal(p.v)]
        ELSE IF p.variant = "LinkInfo"
             THEN IF LinkInfoKind(p.v, checks).kind = "ok"
                  THEN [link EXCEPT !.kind = SomeVal(LinkInfoKind(p.v, checks).val)]
                  ELSE [link EXCEPT !.panicked = TRUE]
        ELSE IF p.variant = "ParentDevName" THEN [link EXCEPT !.parent_dev_name = SomeVal(p.v)]
        ELSE link

RECURSIVE LinkFold(_, _, _)
LinkFold(link, attrs, checks) ==
    IF attrs = <<>> \/ link.panicked THEN link
    ELSE LinkFold(LinkSet(link, Head(attrs), checks), Tail(attrs), checks)

build_link(ifinfomsg, attrs, checks) == LinkFold(NewLink(ifinfomsg), attrs, checks)

\* get_link once recv_gen has handed it the payload of the reply:
\* LinkPayload::deserialize, read_all, build_link
get_link_reply(payload, checks) ==
    LET p == CHOOSE out \in {LinkPayload_deserialize(payload)} : TRUE
        a == CHOOSE out \in {read_all(x, checks) : x \in {p.attrs}} : TRUE
    IN  IF p.kind # "ok" THEN [kind |-> p.kind, err |-> p.err, link |-> <<>>]
        ELSE IF a.kind = "panic" THEN [kind |-> "panic", err |-> "panic", link |-> <<>>]
        ELSE IF build_link(p.ifinfomsg, a.attrs, checks).panicked
             THEN [kind |-> "panic", err |-> "panic", link |-> <<>>]
        ELSE [kind |-> "ok", err |-> "", link |-> build_link(p.ifinfomsg, a.attrs, checks)]

\* impl From<u16> for LinkMessageType: NewLink 16, DelLink 17, GetLink 18,
\* SetLink 19, and panic!("unknown {val}") for every other value
LinkMessageType_from(val) ==
    IF val \in 16..19 THEN ValOk(val) ELSE ValErr("panic")

\* NetlinkStream::recv_gen::<LinkMessageType, LinkPayload>: the header is
\* converted to the link message type before its flags and type are
\* looked at
recv_gen(hrr, buf, q, checks) ==
    LET r == CHOOSE out \in {ReadInto(buf, q, HeaderLen)} : TRUE
        h == DeserializeHeader(r.bytes)
        hrr1 == IF has_flags(h.flags, FlagMulti) THEN TRUE ELSE hrr
        p == CHOOSE out \in {ReadInto(r.buf, r.q, n) : n \in {PayloadLen(h.len)}} : TRUE
        d == CHOOSE out \in {LinkPayload_deserialize(p.bytes)} : TRUE
    IN  IF ~hrr THEN RecvOut(hrr, buf, q, RetNone(0), FALSE)
        ELSE IF ~r.ok THEN RecvOut(hrr, r.buf, r.q, RetErr("ErrReadSocket", 1), FALSE)
        ELSE IF LinkMessageType_from(h.typ).kind # "ok"
        THEN RecvOut(hrr, r.buf, r.q, RetErr("panic", 1), TRUE)
        ELSE IF LinkMessageType_from(h.typ).val = MsgDone
        THEN RecvOut(FALSE, r.buf, r.q, RetNone(1), FALSE)
        ELSE IF PayloadLen(h.len) < 0
        THEN \* overflow panic, or vec![0u8; 2^64 - k]: capacity overflow
             RecvOut(hrr1, r.buf, r.q, RetErr("panic", 1), TRUE)
        ELSE IF ~p.ok THEN RecvOut(hrr1, p.buf, p.q, RetErr("ErrReadSocket", 2), FALSE)
        ELSE IF d.kind # "ok" THEN RecvOut(hrr1, p.buf, p.q, RetErr(d.err, 2), FALSE)
        ELSE RecvOut(hrr1, p.buf, p.q, RetSome(h, p.bytes, 2), FALSE)

\* RouteMessageType::GetLink
GetLink == 18

\* nix::libc::RTEXT_FILTER_VF and RTEXT_FILTER_SKIP_STATS
RTEXT_FILTER_VF == 1
RTEXT_FILTER_SKIP_STATS == 8

\* size_of::<i32>()
SizeOfI32 == 4

\* attr2 of get_link: the header declares
\* aligned_size_of::<LinkAttrHeader>() + size_of::<i32>(), the value is
\* val.to_le_bytes()
ext_mask_block(val) ==
    LET bytes == SerializeLinkAttrHeader(aligned_size(SizeOfAttrHeader) + SizeOfI32, "ExtMask")
                     \o LE32(val)
    IN  bytes \o Zeros(aligned_size(Len(bytes)) - Len(bytes))

\* the request of get_link(name): the header with family 0 and index 0
\* appended through serialize_aligned, then attr1 and attr2 as slices
get_link_nlmsg(name) ==
    Message(GetLink, FlagRequest,
            serialize_aligned(SerializeInterfaceInfoMessage(InterfaceInfoMessageBuilder(0, 0)),
                              SizeOfInterfaceInfoMessage).bytes
                \o link_attr_block("InterfaceName", name)
                \o ext_mask_block(BitOrDisjoint(RTEXT_FILTER_SKIP_STATS, RTEXT_FILTER_VF)))

----------------------------------------------------------------------------
(* route/messages.rs *)

\* RouteAttrBuilder::<T>::build with the builder's typ and value, each an
\* Option held as a sequence of no or one element; a value is the size of
\* its type T and its bincode bytes
RouteAttrBuilder_build(typ, value) ==
    IF typ = <<>> THEN [kind |-> "err", err |-> "ErrMissingField(type)", attr |-> <<>>]
    ELSE IF value = <<>> THEN [kind |-> "err", err |-> "ErrMissingField(value)", attr |-> <<>>]
    ELSE [kind |-> "ok", err |-> "",
          attr |-> [typ |-> typ[1], len |-> aligned_size(value[1].size) % 65536,
                    value |-> value[1].bytes]]

----------------------------------------------------------------------------
(* The decoders and builders as functions of their input *)

MaxAttrs == 3       \* attributes in one attribute stream
MaxPayload == 12    \* bytes of a payload handed to the builder
MaxIpLen == 18      \* bytes of a payload handed to deserialize_ip_addr
MaxAscii == 4       \* bytes of a payload handed to deserialize_ascii
MaxLinkTag == 63    \* the highest wire tag of a link attribute
MaxName == 9        \* bytes of an interface name

\* an attribute on the wire: declared length, tag, and the bytes after the
\* four header bytes
WireAttr(len, typ, body) == [len |-> len, typ |-> typ, body |-> body]

AttrMenu ==
    {WireAttr(8, 5, <<192, 168, 1, 1>>),
     WireAttr(8, 6, <<100, 0, 0, 0>>),
     WireAttr(8, 255, <<222, 173, 190, 239>>),
     WireAttr(0, 1, <<>>),
     WireAttr(2, 9, <<>>),
     WireAttr(3, 0, <<>>),
     WireAttr(5, 20, <<7, 0, 0, 0>>),
     WireAttr(12, 1, <<10, 0, 0, 0>>)}

AttrStreams == UNION {[1..n -> AttrMenu] : n \in 0..MaxAttrs}

EncodeAttr(a) == LE16(a.len) \o LE16(a.typ) \o a.body

EncodeAttrs(as) == Flatten([i \in 1..Len(as) |-> EncodeAttr(as[i])])

\* the rtmsg that opens a route payload
RtmsgBytes == <<2, 0, 0, 0, 254, 3, 0, 1, 0, 0, 0, 0>>

BuildPayloads == {[i \in 1..n |-> 1] : n \in 0..MaxPayload}

\* a link attribute a caller encodes: the variant and the payload bytes
LinkAttr(typ, payload) == [typ |-> typ, payload |-> payload]

\* payloads whose bytes all differ from the padding
Bytes(n) == [i \in 1..n |-> i]

\* one attribute of a variant carried as bytes, of every payload length
LinkSingles ==
    {<<LinkAttr(t, Bytes(n))>> : t \in {"Broadcast", "ExtMask"}, n \in 0..MaxPayload}

LinkAttrMenu ==
    {LinkAttr("InterfaceName", <<108, 111>>),
     LinkAttr("MaxTransmissionUnit", <<220, 5, 0, 0>>),
     LinkAttr("Address", <<10, 0, 0, 1>>),
     LinkAttr("Broadcast", <<1, 2, 3, 4, 5, 6>>),
     LinkAttr("Promiscuity", <<1, 0, 0, 0>>)}

LinkAttrStreams == UNION {[1..n -> LinkAttrMenu] : n \in 0..MaxAttrs}

EncodeLinkAttrs(as) ==
    Flatten([i \in 1..Len(as) |-> link_attr_block(as[i].typ, as[i].payload)])

\* one attribute of each typed tag as the kernel lays it out: the declared
\* length is the header and the value, zeros pad the value to four bytes
TypedAttrs ==
    {WireAttr(8, t, <<192, 168, 1, 1>>) : t \in {1, 2, 5, 7}}
    \cup {WireAttr(20, t, <<32, 1, 13, 184, 0, 0, 0, 0, 0, 0, 0, 0, 0, 0, 0, 1>>) :
              t \in {1, 2, 5, 7}}
    \cup {WireAttr(8, t, <<100, 1, 0, 255>>) : t \in {3, 4, 6, 8, 15, 23}}
    \cup {WireAttr(5, 20, <<249, 0, 0, 0>>), WireAttr(6, 21, <<1, 2, 0, 0>>)}

\* NUL, "l", "o" and a byte that is not UTF-8, in every order, and the
\* name "lo" in an eight-byte field
AsciiPayloads ==
    UNION {[1..n -> {0, 108, 111, 255}] : n \in 0..MaxAscii}
    \cup {<<108, 111, 0, 0, 0, 0, 0, 0>>}

\* a link attribute of wire tag n as the kernel sends it: four value bytes,
\* or the whole struct for the two statistics tags
KernelLinkAttr(n) ==
    LET body == IF n = 7 THEN Zeros(SizeOfLinkStats)
                ELSE IF n = 23 THEN Zeros(SizeOfStats64)
                ELSE <<220, 5, 0, 0>>
    IN  WireAttr(SizeOfAttrHeader + Len(body), n, body)

\* the link header as the kernel lays it out: family, a pad byte, type at
\* offset 2, index at offset 4, flags at offset 8, change at offset 12
KernelIfInfo(m) ==
    <<m.family, 0>> \o LE16(m.typ) \o LE32(m.index) \o U32Bytes(m.flags) \o U32Bytes(m.change)

\* link headers: loopback and ethernet device types, three indexes
LinkHeaders ==
    {InterfaceInfoMessage(0, t, i, U32Of(65609), U32Of(0)) : t \in {1, 772}, i \in {1, 2, 258}}
    \cup {InterfaceInfoMessageBuilder(0, i) : i \in {0, 1, 2, 258}}

\* the sub-attributes of LINK_INFO: KIND "veth", and one of each other
\* sub-tag (UNSPEC 0, DATA 2, XSTATS 3, SLAVE_KIND 4, SLAVE_DATA 5)
KindSub == <<9, 0, 1, 0, 118, 101, 116, 104, 0, 0, 0, 0>>

OtherSub(typ) == <<8, 0, typ, 0, 1, 0, 0, 0>>

\* the LINK_INFO attribute (tag 18) around a nested stream
LinkInfoAttr(nested) == LE16(SizeOfAttrHeader + Len(nested)) \o <<18, 0>> \o nested

NestedStreams ==
    {KindSub}
    \cup {OtherSub(t) : t \in {0, 2, 3, 4, 5}}
    \cup {KindSub \o OtherSub(t) : t \in {0, 2, 3, 4, 5}}
    \cup {OtherSub(t) \o KindSub : t \in {0, 2, 3, 4, 5}}

\* attributes the codec rejects: a tag no variant has (200), an MTU of
\* eight bytes, a PROMISCUITY without its value, an IFNAME whose length
\* runs past the end of the slice
BadLinkAttrs ==
    {<<8, 0, 200, 0, 1, 0, 0, 0>>,
     <<12, 0, 4, 0, 1, 2, 3, 4, 5, 6, 7, 8>>,
     <<4, 0, 30, 0>>,
     <<40, 0, 3, 0, 101, 116, 104, 48>>}

\* the attributes of a reply: none, or the name "lo" as the kernel sends it,
\* alone, with the promiscuity count, or with a LINK_INFO attribute
ReplyAttrs ==
    {<<>>,
     <<9, 0, 3, 0, 108, 111, 0, 0, 0, 0, 0, 0>>,
     <<9, 0, 3, 0, 108, 111, 0, 0, 0, 0, 0, 0, 8, 0, 30, 0, 1, 0, 0, 0>>}
    \cup {<<9, 0, 3, 0, 108, 111, 0, 0, 0, 0, 0, 0>> \o LinkInfoAttr(n) : n \in NestedStreams}
    \cup {<<9, 0, 3, 0, 108, 111, 0, 0, 0, 0, 0, 0>> \o b \o t :
              b \in BadLinkAttrs, t \in {<<>>, <<8, 0, 30, 0, 1, 0, 0, 0>>}}

\* interface names: "lo", and the prefixes of "enp0s31f6w"
Names ==
    {<<108, 111>>}
    \cup {SubSeq(<<101, 110, 112, 48, 115, 51, 49, 102, 54, 119>>, 1, Min(n, 10)) :
              n \in 0..MaxName}

\* values of the types an attribute carries: size_of::<T>() and the bytes
\* bincode writes for T = (), i8, i16, i32, Ipv4Addr, u64, Ipv6Addr
AttrValues ==
    {[size |-> 0, bytes |-> <<>>],
     [size |-> 1, bytes |-> <<249>>],
     [size |-> 2, bytes |-> <<1, 2>>],
     [size |-> 4, bytes |-> <<100, 0, 0, 0>>],
     [size |-> 4, bytes |-> <<192, 168, 1, 1>>],
     [size |-> 8, bytes |-> <<1, 2, 3, 4, 5, 6, 7, 8>>],
     [size |-> 16, bytes |-> <<32, 1, 13, 184, 0, 0, 0, 0, 0, 0, 0, 0, 0, 0, 0, 1>>]}

\* decoded route attributes handed to build_route: one value of each kind
\* it looks at, and some it does not
RouteValues ==
    <<[tag |-> 1, v |-> [v |-> 4, octets |-> <<10, 0, 0, 0>>]],
     [tag |-> 2, v |-> [v |-> 4, octets |-> <<10, 0, 0, 9>>]],
     [tag |-> 4, v |-> 2],
     [tag |-> 5, v |-> [v |-> 4, octets |-> <<192, 168, 1, 1>>]],
     [tag |-> 6, v |-> 100],
     [tag |-> 6, v |-> 600],
     [tag |-> 7, v |-> [v |-> 4, octets |-> <<192, 168, 1, 7>>]],
     [tag |-> 15, v |-> 254],
     [tag |-> 0, v |-> <<>>]>>

\* a list is given by the positions of its values in RouteValues
RouteValueLists == UNION {[1..n -> 1..Len(RouteValues)] : n \in 0..MaxAttrs}

ValuesOf(ixs) == [i \in 1..Len(ixs) |-> RouteValues[ixs[i]]]

\* route headers: the main and the local table
RouteHeaders ==
    {DeserializeRouteMessage(<<2, 0, 0, 0, 254, 3, 0, 1, 0>>),
     DeserializeRouteMessage(<<2, 32, 0, 0, 255, 2, 254, 2, 0>>)}

\* size_of::<&str>(): a pointer and a length
SizeOfStr == 16

\* bincode::serialize(&str): the length as a u64, then the bytes
SerializeStr(name) == LE32(Len(name)) \o <<0, 0, 0, 0>> \o name

\* values handed to append: the route header, the link header, the values
\* of the attribute types, and interface names as &str
AppendValues ==
    {[size |-> SizeOfRouteMessage,
      bytes |-> SerializeRouteMessage(DeserializeRouteMessage(<<2, 0, 0, 0, 254, 3, 0, 1, 0>>))]}
    \cup {[size |-> SizeOfInterfaceInfoMessage, bytes |-> SerializeInterfaceInfoMessage(h)] :
              h \in LinkHeaders}
    \cup AttrValues
    \cup {[size |-> SizeOfStr, bytes |-> SerializeStr(n)] : n \in Names}

\* a link reply: the header of "lo" and its name
LinkReplyPayload ==
    KernelIfInfo(InterfaceInfoMessage(0, 772, 1, U32Of(65609), U32Of(0)))
        \o <<9, 0, 3, 0, 108, 111, 0, 0, 0, 0, 0, 0>>

\* an envelope whose header declares len, whatever follows it
DeclaredEnvelope(len, typ, flags, payload) ==
    SerializeHeader(len, typ, flags, U32Of(0), 300) \o payload

\* first envelopes of a reply: the control types NOOP 1, ERROR 2, DONE 3,
\* OVERRUN 4, the link types 16..19 and their neighbours, bare or carrying
\* a link payload; and headers that declare less than their own 16 bytes
FirstEnvelopes ==
    {DeclaredEnvelope(HeaderLen + Len(pl), t, f, pl) :
         t \in {1, 2, 3, 4, 15, 16, 17, 18, 19, 20, 24}, f \in {0, FlagMulti},
         pl \in {<<>>, LinkReplyPayload}}
    \cup {DeclaredEnvelope(n, t, 0, <<>>) : n \in 0..(HeaderLen - 1), t \in {16, 24}}

FnInputs ==
    {[NoInput EXCEPT !.fn = "read_rtmsg", !.attrs = as] : as \in AttrStreams}
    \cup {[NoInput EXCEPT !.fn = "read_rtmsg", !.attrs = <<a>>] : a \in TypedAttrs}
    \cup {[NoInput EXCEPT !.fn = "build", !.payload = b, !.ptr = w] :
             b \in BuildPayloads, w \in PointerSizes}
    \cup {[NoInput EXCEPT !.fn = "link_attrs", !.lattrs = as] :
             as \in LinkSingles \cup LinkAttrStreams}
    \cup {[NoInput EXCEPT !.fn = "ip_addr", !.payload = Bytes(n)] : n \in 0..MaxIpLen}
    \cup {[NoInput EXCEPT !.fn = "ascii", !.payload = b] : b \in AsciiPayloads}
    \cup {[NoInput EXCEPT !.fn = "link_reply", !.hdr = h, !.payload = KernelIfInfo(h) \o a] :
             h \in LinkHeaders, a \in ReplyAttrs}
    \cup {[NoInput EXCEPT !.fn = "link_header", !.hdr = h] : h \in LinkHeaders}
    \cup {[NoInput EXCEPT !.fn = "get_link", !.payload = n] : n \in Names}
    \cup {[NoInput EXCEPT !.fn = f, !.payload = e] :
             f \in {"recv", "recv_gen"}, e \in FirstEnvelopes}
    \cup {[NoInput EXCEPT !.fn = "append", !.value = <<v>>] : v \in AppendValues}
    \cup {[NoInput EXCEPT !.fn = "build_route", !.hdr = h, !.vals = as] :
             h \in RouteHeaders, as \in RouteValueLists}
    \cup {[NoInput EXCEPT !.fn = "route_attr", !.typ = t, !.value = v] :
             t \in {<<>>} \cup {<<n>> : n \in RouteAttrTypes},
             v \in {<<>>} \cup {<<x>> : x \in AttrValues}}
    \cup {[NoInput EXCEPT !.fn = "link_wire", !.attrs = <<KernelLinkAttr(n)>>] :
             n \in 0..MaxLinkTag}

InitFn ==
    /\ InitStream
    /\ ret = NoRet
    /\ seq = U32Of(0)
    /\ nsent = U32Of(0)
    /\ din \in FnInputs
    /\ dout = NoOutput

ReadRtmsg ==
    /\ din.fn = "read_rtmsg"
    /\ ~dout.done
    /\ \E m \in {read_rtmsg(RtmsgBytes \o EncodeAttrs(din.attrs), overflow_checks)} :
           dout' = [done |-> TRUE, r |-> m, route |-> RouteOf(m)]
    /\ UNCHANGED <<streamVars, din>>

BuildMessage ==
    /\ din.fn = "build"
    /\ ~dout.done
    /\ dout' = [NoOutput EXCEPT !.done = TRUE, !.r = messages_build(din.payload, din.ptr)]
    /\ UNCHANGED <<streamVars, din>>

\* a stream of attribute blocks built as get_link builds them, read back by
\* read_attributes and by read_all
ReadLinkAttributes ==
    /\ din.fn = "link_attrs"
    /\ ~dout.done
    /\ \E b \in {EncodeLinkAttrs(din.lattrs)} :
           \E ra \in {read_attributes(b, overflow_checks)} :
               \E rn \in {read_all(b, overflow_checks)} :
                   dout' = [NoOutput EXCEPT !.done = TRUE,
                                            !.r = [stream |-> b, attrs |-> ra, all |-> rn]]
    /\ UNCHANGED <<streamVars, din>>

DeserializeIpAddr ==
    /\ din.fn = "ip_addr"
    /\ ~dout.done
    /\ dout' = [NoOutput EXCEPT !.done = TRUE, !.r = deserialize_ip_addr(din.payload)]
    /\ UNCHANGED <<streamVars, din>>

DeserializeAscii ==
    /\ din.fn = "ascii"
    /\ ~dout.done
    /\ dout' = [NoOutput EXCEPT !.done = TRUE, !.r = deserialize_ascii(din.payload)]
    /\ UNCHANGED <<streamVars, din>>

\* read_attributes over an attribute stream that came off the wire
ReadWireLinkAttributes ==
    /\ din.fn = "link_wire"
    /\ ~dout.done
    /\ \E m \in {read_attributes(EncodeAttrs(din.attrs), overflow_checks)} :
           dout' = [NoOutput EXCEPT !.done = TRUE, !.r = m]
    /\ UNCHANGED <<streamVars, din>>

\* the reply of the kernel to get_link, decoded into a Link
GetLinkReply ==
    /\ din.fn = "link_reply"
    /\ ~dout.done
    /\ \E m \in {get_link_reply(din.payload, overflow_checks)} :
           dout' = [NoOutput EXCEPT !.done = TRUE, !.r = m]
    /\ UNCHANGED <<streamVars, din>>

\* NetlinkMessageBuilder::append(ifinfomsg): serialize_aligned of the header
AppendLinkHeader ==
    /\ din.fn = "link_header"
    /\ ~dout.done
    /\ dout' = [NoOutput EXCEPT
                    !.done = TRUE,
                    !.r = serialize_aligned(SerializeInterfaceInfoMessage(din.hdr),
                                            SizeOfInterfaceInfoMessage)]
    /\ UNCHANGED <<streamVars, din>>

\* get_link(name) up to its send: the request and the bytes send writes
GetLinkRequest ==
    /\ din.fn = "get_link"
    /\ ~dout.done
    /\ \E m \in {get_link_nlmsg(din.payload)} :
           dout' = [NoOutput EXCEPT !.done = TRUE,
                                    !.r = [msg |-> m, wire |-> SendBytes(m, seq, pid)]]
    /\ UNCHANGED <<streamVars, din>>

BuildRouteAttr ==
    /\ din.fn = "route_attr"
    /\ ~dout.done
    /\ dout' = [NoOutput EXCEPT !.done = TRUE, !.r = RouteAttrBuilder_build(din.typ, din.value)]
    /\ UNCHANGED <<streamVars, din>>

BuildRoute ==
    /\ din.fn = "build_route"
    /\ ~dout.done
    /\ dout' = [NoOutput EXCEPT !.done = TRUE, !.r = build_route(din.hdr, ValuesOf(din.vals))]
    /\ UNCHANGED <<streamVars, din>>

\* the first recv_gen of get_link on the datagram the kernel answered
\* with: has_remaining_reads is set by the send, the reader is empty
RecvGen ==
    /\ din.fn = "recv_gen"
    /\ ~dout.done
    /\ \E r \in {recv_gen(TRUE, <<>>, <<din.payload>>, overflow_checks)} :
           dout' = [NoOutput EXCEPT !.done = TRUE, !.r = r]
    /\ UNCHANGED <<streamVars, din>>

\* the first recv after a send, on the same datagram
RecvFirst ==
    /\ din.fn = "recv"
    /\ ~dout.done
    /\ \E r \in {recv(TRUE, <<>>, <<din.payload>>)} :
           dout' = [NoOutput EXCEPT !.done = TRUE, !.r = r]
    /\ UNCHANGED <<streamVars, din>>

\* NetlinkMessageBuilder::append(payload) on an empty builder: the payload
\* becomes serialize_aligned(payload)
AppendValue ==
    /\ din.fn = "append"
    /\ ~dout.done
    /\ dout' = [NoOutput EXCEPT !.done = TRUE,
                                !.r = serialize_aligned(din.value[1].bytes, din.value[1].size)]
    /\ UNCHANGED <<streamVars, din>>

NextFn ==
    \/ AppendValue
    \/ RecvGen
    \/ RecvFirst
    \/ BuildRoute
    \/ BuildRouteAttr
    \/ GetLinkRequest
    \/ GetLinkReply
    \/ AppendLinkHeader
    \/ ReadWireLinkAttributes
    \/ ReadRtmsg
    \/ BuildMessage
    \/ ReadLinkAttributes
    \/ DeserializeIpAddr
    \/ DeserializeAscii

SpecFn == InitFn /\ [][NextFn]_vars

----------------------------------------------------------------------------
(* withnix2.rs: the loops over the raw socket, one turn per step *)

MaxData == 4        \* bytes of the message handed to send_sock
MaxTurns == 4       \* turns of the loop of send_sock in one behaviour
MaxChunks == 3      \* datagrams the endpoint delivers before it stops

\* the buffer of recv_sock: vec![0u8; 2048]
RecvBufLen == 2048

\* One turn of the loop of send_sock once send(2) has accepted sent bytes
\* of remaining: the loop ends when all of remaining was taken, else
\* remaining = &data[sent..]
send_sock_turn(data, remaining, sent) ==
    IF sent = Len(remaining) THEN [done |-> TRUE, remaining |-> remaining]
    ELSE [done |-> FALSE, remaining |-> Drop(data, sent)]

\* recv_sock on what recvmsg(2) gave: the first io slice, which holds at
\* most the 2048 bytes of the buffer; an errno is passed on
recv_sock(outcome) ==
    IF outcome.kind = "ok" THEN [outcome EXCEPT !.data = Take(@, RecvBufLen)] ELSE outcome

\* a drain that keeps only the chunk read last
read_until_block_keeping_last(bytes, chunk) ==
    IF chunk.kind = "ok" THEN [done |-> FALSE, kind |-> "run", bytes |-> chunk.data]
    ELSE IF chunk.kind = "eagain" THEN [done |-> TRUE, kind |-> "ok", bytes |-> bytes]
    ELSE [done |-> TRUE, kind |-> "err", bytes |-> <<>>]

\* One turn of the loop of read_until_block on the result of recv_sock: a
\* chunk is appended, EAGAIN breaks to Ok(bytes), another error is returned
\* and bytes is dropped
read_until_block(bytes, chunk) ==
    IF chunk.kind = "ok" THEN [done |-> FALSE, kind |-> "run", bytes |-> bytes \o chunk.data]
    ELSE IF chunk.kind = "eagain" THEN [done |-> TRUE, kind |-> "ok", bytes |-> bytes]
    ELSE [done |-> TRUE, kind |-> "err", bytes |-> <<>>]

\* messages handed to send_sock: the prefixes of 1 2 3 4
SendData == {SubSeq(<<1, 2, 3, 4>>, 1, Min(n, 4)) : n \in 0..MaxData}

\* what send(2) may accept of a non-empty buffer: one byte up to all of it
SentCounts(remaining) == IF remaining = <<>> THEN {0} ELSE 1..Len(remaining)

\* what recvmsg(2) may give on the non-blocking socket: a datagram, EAGAIN
\* when none is queued, another errno
RecvOutcomes ==
    {[kind |-> "ok", data |-> c] : c \in {<<1>>, <<2, 3>>}}
    \cup {[kind |-> "eagain", data |-> <<>>], [kind |-> "err", data |-> <<>>]}

IoInputs ==
    {[NoInput EXCEPT !.fn = "send_sock", !.payload = d] : d \in SendData}
    \cup {[NoInput EXCEPT !.fn = "read_until_block"]}

\* the loop at its entry: remaining = data, bytes = vec![]; handed and
\* chunks record what the endpoint accepted and delivered
IoStart(in) ==
    IF in.fn = "send_sock"
    THEN [NoOutput EXCEPT !.r = [kind |-> "run", remaining |-> in.payload,
                                 handed |-> <<>>, turns |-> 0]]
    ELSE [NoOutput EXCEPT !.r = [kind |-> "run", bytes |-> <<>>, chunks |-> <<>>,
                                 last |-> "none"]]

InitIo ==
    /\ InitStream
    /\ ret = NoRet
    /\ seq = U32Of(0)
    /\ nsent = U32Of(0)
    /\ din \in IoInputs
    /\ dout = IoStart(din)

\* a turn of send_sock: send(2) fails, or accepts some of remaining
SendSockTurn ==
    /\ din.fn = "send_sock"
    /\ ~dout.done
    /\ dout.r.turns < MaxTurns
    /\ \/ dout' = [dout EXCEPT !.done = TRUE, !.r.kind = "err", !.r.turns = @ + 1]
       \/ \E sent \in SentCounts(dout.r.remaining) :
          \E t \in {send_sock_turn(din.payload, dout.r.remaining, sent)} :
              dout' = [dout EXCEPT !.done = t.done,
                                   !.r = [kind |-> IF t.done THEN "ok" ELSE "run",
                                          remaining |-> t.remaining,
                                          handed |-> dout.r.handed
                                                         \o Take(dout.r.remaining, sent),
                                          turns |-> dout.r.turns + 1]]
    /\ UNCHANGED <<streamVars, din>>

\* a turn of read_until_block; the endpoint has at most MaxChunks datagrams
\* to deliver
ReadUntilBlockTurn ==
    /\ din.fn = "read_until_block"
    /\ ~dout.done
    /\ \E o \in RecvOutcomes :
       \E t \in {read_until_block(dout.r.bytes, recv_sock(o))} :
           /\ o.kind = "ok" => Len(dout.r.chunks) < MaxChunks
           /\ dout' = [dout EXCEPT !.done = t.done,
                                   !.r = [kind |-> t.kind, bytes |-> t.bytes,
                                          chunks |-> IF o.kind = "ok"
                                                     THEN Append(dout.r.chunks, o.data)
                                                     ELSE dout.r.chunks,
                                          last |-> o.kind]]
    /\ UNCHANGED <<streamVars, din>>

NextIo ==
    \/ SendSockTurn
    \/ ReadUntilBlockTurn

SpecIo == InitIo /\ [][NextIo]_vars

\* the program runs: a loop that can take its next turn takes it
SpecIoLive == SpecIo /\ WF_vars(SendSockTurn) /\ WF_vars(ReadUntilBlockTurn)

----------------------------------------------------------------------------
(* What the properties look at *)

\* the sequence field of the envelope written last
WireSeq ==
    LET e == LastEnvelope(tx[Len(tx)])
    IN  [hi |-> U16At(e, 11), lo |-> U16At(e, 9)]

\* the step is a call of recv or of the iterator
RecvStep == ret'.op = "recv"

\* what a recv that reads would find as the next header
PeekOk == ReadInto(rbuf, rxq, HeaderLen).ok

PeekHeader == DeserializeHeader(ReadInto(rbuf, rxq, HeaderLen).bytes)

RetEnvelope == [typ |-> ret.typ, flags |-> ret.flags, payload |-> ret.payload]

\* every envelope the kernel of this model puts on the wire, DONE aside
KernelEnvelopes ==
    {EnvOf(e) : e \in UNION {{SingleEnvelope(U32Of(n), pid), ErrorEnvelope(U32Of(n), pid),
                              DumpEnvelope(1, U32Of(n), pid), DumpEnvelope(2, U32Of(n), pid)} :
                             n \in 0..MaxSends}}

IsPrefix(a, b) == Len(a) <= Len(b) /\ a = SubSeq(b, 1, Len(a))

----------------------------------------------------------------------------
(* Properties *)

\* C1: the sequence field written on the wire by the i-th successful send
\* (i from 0) equals i, for every count of sends the 32-bit counter is asked
\* to reach: the field of the send made last is one less than the number of
\* sends that reached the wire.
C1_WireSeqIsSendIndex == tx # <<>> => CountInc(WireSeq) = nsent

\* C2: a recv that reads a DONE header returns None and clears
\* has_remaining_reads; while the flag is clear every recv returns None and
\* leaves the transport untouched, a failed send leaves it clear, a successful
\* send sets it, and a recv with the flag set reads the transport.
C2_DoneHaltsUntilSend ==
    [][/\ (RecvStep /\ has_remaining_reads /\ PeekOk /\ PeekHeader.typ = MsgDone)
            => (ret'.kind = "none" /\ ~has_remaining_reads')
       /\ (RecvStep /\ ~has_remaining_reads)
            => (ret'.kind = "none" /\ ret'.nreads = 0 /\ rbuf' = rbuf /\ rxq' = rxq
                /\ ~has_remaining_reads')
       /\ (ret'.op = "send" /\ ret'.err = "ErrWriteSocket")
            => (has_remaining_reads' = has_remaining_reads)
       /\ (ret'.op = "send" /\ ret'.kind = "ok") => has_remaining_reads'
       /\ (RecvStep /\ has_remaining_reads) => ret'.nreads >= 1]_vars

\* a recv after DONE has returned None and left unread bytes in the reader
C2_Witness ==
    /\ ret.op = "recv"
    /\ ret.kind = "none"
    /\ ret.nreads = 0
    /\ ~has_remaining_reads
    /\ rbuf # <<>>
    /\ got # <<>>

\* C3: once recv has returned an envelope whose flags lack MULTI, the next
\* recv, with no send in between, returns None without reading the transport.
C3_NoneAfterSingle ==
    [][(RecvStep /\ ret.op = "recv" /\ ret.kind = "some"
        /\ ~has_flags(ret.flags, FlagMulti))
           => (ret'.kind = "none" /\ ret'.nreads = 0)]_vars

\* C4: every envelope recv returns carries precisely the header and payload
\* bytes of an envelope that was on the wire.
C4_ReturnsWireEnvelopes ==
    (ret.op = "recv" /\ ret.kind = "some") => RetEnvelope \in KernelEnvelopes

\* C5: for a reply e1..en then DONE sent to a stream whose earlier replies had
\* been read, the envelopes recv returns are e1..en in order, none lost,
\* duplicated or reordered, and the None that follows comes after all of them.
C5_RepliesInOrder ==
    (want.clean /\ want.done /\ ret.op = "recv") =>
        /\ IsPrefix(got, want.envs)
        /\ (ret.kind = "none" /\ ret.nreads = 1) => got = want.envs

\* C6: the first request list_routes sends on a fresh dialogue with process id
\* P is the 28 bytes 1c 00 00 00 1a 00 01 03 00 00 00 00 P P P P followed by
\* 02 and eleven zero bytes.
C6_ListRoutesRequest ==
    (ret.op = "list_routes" /\ nops = 1 /\ tx # <<>>) =>
        tx = << <<28, 0, 0, 0, 26, 0, 1, 3, 0, 0, 0, 0>> \o LE32(pid)
                \o <<2, 0, 0, 0, 0, 0, 0, 0, 0, 0, 0, 0>> >>

\* list_routes was the first call, its request went out, and P has two
\* non-zero bytes
C6_Witness ==
    /\ ret.op = "list_routes"
    /\ nops = 1
    /\ Len(tx) = 1
    /\ Len(tx[1]) = 28
    /\ pid = 300

\* C7: an envelope built by NetlinkMessageBuilder::build of core/messages.rs
\* declares the length of what is emitted for it: 16 plus the aligned length
\* of the serialized payload.
C7_BuildDeclaresLength ==
    (dout.done /\ din.fn = "build") =>
        dout.r.header.len = HeaderLen + aligned_size(Len(dout.r.payload))

\* C8: a recv that reads an ERROR header returns the envelope as Some with its
\* payload as it was on the wire and ends the dialogue: the flag is cleared,
\* and the recv after a returned ERROR envelope returns None.
C8_ErrorEndsDialogue ==
    [][/\ (RecvStep /\ has_remaining_reads /\ PeekOk /\ PeekHeader.typ = MsgError)
            => (ret'.kind = "some" /\ ret'.typ = MsgError /\ ~has_remaining_reads')
       /\ (RecvStep /\ ret.op = "recv" /\ ret.kind = "some" /\ ret.typ = MsgError)
            => ret'.kind = "none"]_vars

\* the attribute is laid out as the wire format says: the declared length
\* is the header and the value, the value a multiple of four bytes
WellFormed(a) == a.len = SizeOfAttrHeader + Len(a.body) /\ Len(a.body) % ALIGN_TO = 0

UnknownTag(a) == a.typ \notin RouteAttrTypes

\* the value the stream's i-th attribute stands for
ExpectedValue(a) ==
    IF UnknownTag(a) THEN [tag |-> a.typ, v |-> a.body]
    ELSE RouteAttrValue_deserialize(a.typ, a.body).val

\* C9: a well-formed attribute stream that holds an attribute of unknown tag
\* decodes without error: the unknown attribute comes out as {tag, bytes} and
\* every sibling before and after it is decoded.
C9_UnknownTagIsOpaque ==
    (/\ dout.done
     /\ din.fn = "read_rtmsg"
     /\ \A i \in 1..Len(din.attrs) : WellFormed(din.attrs[i])
     /\ \E i \in 1..Len(din.attrs) : UnknownTag(din.attrs[i]))
    => /\ dout.r.kind = "ok"
       /\ Len(dout.r.attrs) = Len(din.attrs)
       /\ \A i \in 1..Len(din.attrs) : dout.r.attrs[i] = ExpectedValue(din.attrs[i])

\* the first attribute of the stream whose declared length is below four,
\* all before it being well-formed attributes of known tag
FirstShort(i) ==
    /\ i \in 1..Len(din.attrs)
    /\ din.attrs[i].len < SizeOfAttrHeader
    /\ \A j \in 1..(i - 1) : WellFormed(din.attrs[j]) /\ ~UnknownTag(din.attrs[j])

\* C10: an attribute header that declares a length below 4 is rejected with
\* a DESERIALIZE error value: decoding neither panics on a length computed
\* below zero nor produces a value for that attribute.
C10_ShortLengthRejected ==
    \A i \in 1..MaxAttrs + 1 :
        (dout.done /\ din.fn = "read_rtmsg" /\ FirstShort(i))
        => /\ dout.r.kind = "err"
           /\ dout.r.err = "ErrDeserialize"
           /\ Len(dout.r.attrs) = i - 1

\* where the i-th attribute of the stream under test starts in the payload
AttrOffset(i) == Len(RtmsgBytes) + Len(EncodeAttrs(SubSeq(din.attrs, 1, i - 1)))

\* the first i - 1 attributes are well-formed, of known tag, and the i-th
\* declares a padded length that runs past the end of the payload
FirstOverrun(i) ==
    /\ i \in 1..Len(din.attrs)
    /\ \A j \in 1..(i - 1) : WellFormed(din.attrs[j]) /\ ~UnknownTag(din.attrs[j])
    /\ ~UnknownTag(din.attrs[i])
    /\ din.attrs[i].len >= SizeOfAttrHeader
    /\ AttrOffset(i) + aligned_size(din.attrs[i].len)
           > Len(RtmsgBytes) + Len(EncodeAttrs(din.attrs))

\* C11: an attribute whose padded declared length runs past the end of the
\* slice makes read_rtmsg fail with ErrUnexpectedEof; the failed take leaves
\* the cursor where the attribute's header ended, and no route is built from
\* the envelope.
C11_OverrunIsEof ==
    \A i \in 1..MaxAttrs + 1 :
        (dout.done /\ din.fn = "read_rtmsg" /\ FirstOverrun(i))
        => /\ dout.r.kind = "err"
           /\ dout.r.err = "ErrUnexpectedEof"
           /\ dout.r.cursor = AttrOffset(i) + SizeOfAttrHeader
           /\ Len(dout.r.attrs) = i - 1
           /\ ~dout.route.some

\* the overrunning attribute comes second, after one that was decoded
C11_Witness ==
    /\ dout.done
    /\ din.fn = "read_rtmsg"
    /\ FirstOverrun(2)
    /\ dout.r.kind = "err"
    /\ Len(dout.r.attrs) = 1

\* the input is one link attribute, carried as bytes, with n payload bytes
OpaqueSingle(n) ==
    /\ din.fn = "link_attrs"
    /\ Len(din.lattrs) = 1
    /\ LinkAttrKind(din.lattrs[1].typ) = "bytes"
    /\ Len(din.lattrs[1].payload) = n

\* C12: an attribute carried as opaque bytes with a payload of n bytes, n a
\* multiple of 4 or not, encoded as header (length 4 + n, tag), payload and
\* zero pad, is a stream of align4(4 + n) bytes, and decoding that stream
\* gives one attribute with the same tag and exactly the n payload bytes,
\* the pad left out.
C12_AttributeRoundTrip ==
    \A n \in 0..MaxPayload + 1 :
        (dout.done /\ OpaqueSingle(n))
        => /\ Len(dout.r.stream) = aligned_size(SizeOfAttrHeader + n)
           /\ U16At(dout.r.stream, 1) = SizeOfAttrHeader + n
           /\ dout.r.attrs.kind = "ok"
           /\ Len(dout.r.attrs.attrs) = 1
           /\ dout.r.attrs.attrs[1].variant = din.lattrs[1].typ
           /\ dout.r.attrs.attrs[1].v = din.lattrs[1].payload
           /\ Len(dout.r.all.attrs) = 1
           /\ dout.r.all.attrs[1].payload.variant = din.lattrs[1].typ
           /\ dout.r.all.attrs[1].payload.v = din.lattrs[1].payload

\* a route attribute as an encoder leaves it: a known tag, a declared length
\* of the header and the value, and the value padded with zeros to four bytes
RouteEncoded(a) ==
    /\ ~UnknownTag(a)
    /\ a.len >= SizeOfAttrHeader
    /\ Len(a.body) = aligned_size(a.len) - SizeOfAttrHeader
    /\ \A k \in (a.len - SizeOfAttrHeader + 1)..Len(a.body) : a.body[k] = 0

\* the value such an attribute was encoded from
RouteEncodedValue(a) ==
    RouteAttrValue_deserialize(a.typ, SubSeq(a.body, 1, a.len - SizeOfAttrHeader)).val

LinkEncodedValue(a) == LinkAttrValue_deserialize(a.typ, a.payload).val

\* C13: decoding the concatenation of N well-formed encoded attributes of
\* known tag, N >= 0, gives exactly those N attributes in their order, and
\* the decoder stops at the end of the slice: for read_rtmsg over route
\* attributes, and for read_attributes and read_all over link attributes.
C13_StreamInOrder ==
    /\ (dout.done /\ din.fn = "read_rtmsg"
            /\ \A i \in 1..Len(din.attrs) : RouteEncoded(din.attrs[i]))
        => /\ dout.r.kind = "ok"
           /\ Len(dout.r.attrs) = Len(din.attrs)
           /\ \A i \in 1..Len(din.attrs) : dout.r.attrs[i] = RouteEncodedValue(din.attrs[i])
           /\ dout.r.cursor = Len(RtmsgBytes) + Len(EncodeAttrs(din.attrs))
    /\ (dout.done /\ din.fn = "link_attrs")
        => /\ dout.r.attrs.kind = "ok"
           /\ Len(dout.r.attrs.attrs) = Len(din.lattrs)
           /\ \A i \in 1..Len(din.lattrs) :
                  dout.r.attrs.attrs[i] = LinkEncodedValue(din.lattrs[i])
           /\ dout.r.attrs.cursor = Len(dout.r.stream)
           /\ Len(dout.r.all.attrs) = Len(din.lattrs)
           /\ \A i \in 1..Len(din.lattrs) :
                  dout.r.all.attrs[i].payload = LinkEncodedValue(din.lattrs[i])
           /\ dout.r.all.cursor = Len(dout.r.stream)

\* C14: deserialize_ip_addr returns a v4 address for every input of 4
\* bytes, a v6 address for every input of 16 bytes, and fails for every
\* other length: below 4, from 5 to 15, above 16.
C14_IpAddrByLength ==
    (dout.done /\ din.fn = "ip_addr")
    => /\ Len(din.payload) = 4
            => dout.r.kind = "ok" /\ dout.r.val = [v |-> 4, octets |-> din.payload]
       /\ Len(din.payload) = 16
            => dout.r.kind = "ok" /\ dout.r.val = [v |-> 6, octets |-> din.payload]
       /\ Len(din.payload) \notin {4, 16} => dout.r.kind = "err"

\* the tags the table gives a type, and the width of the type's payload
TableIpTags == {1, 2, 5, 7}
TableI32Tags == {3, 4, 6, 8, 15, 23}

TableWidths(t) ==
    IF t \in TableIpTags THEN {4, 16}
    ELSE IF t \in TableI32Tags THEN {4}
    ELSE IF t = 20 THEN {1}
    ELSE IF t = 21 THEN {2}
    ELSE {}

\* the value the table gives the payload p of an attribute of tag t
TableValue(t, p) ==
    IF t \in TableIpTags THEN [v |-> IF Len(p) = 16 THEN 6 ELSE 4, octets |-> p]
    ELSE SignedLE(p)

\* the input is one route attribute of a typed tag, laid out as on the wire
TypedSingle ==
    /\ din.fn = "read_rtmsg"
    /\ Len(din.attrs) = 1
    /\ RouteEncoded(din.attrs[1])
    /\ (din.attrs[1].len - SizeOfAttrHeader) \in TableWidths(din.attrs[1].typ)

\* C15: a route attribute as it appears on the wire (declared length 4 plus
\* the payload width, padded to 4) decodes by the tag table: tags 1, 2, 5, 7
\* to an IP address, tags 3, 4, 6, 8, 15, 23 to the little-endian i32, tag 20
\* (declared length 5) to the i8 and tag 21 (declared length 6) to the i16,
\* and the decoder consumes the padded length.
C15_RouteTagTable ==
    (dout.done /\ TypedSingle)
    => /\ dout.r.kind = "ok"
       /\ Len(dout.r.attrs) = 1
       /\ dout.r.attrs[1].tag = din.attrs[1].typ
       /\ dout.r.attrs[1].v =
              TableValue(din.attrs[1].typ,
                         SubSeq(din.attrs[1].body, 1, din.attrs[1].len - SizeOfAttrHeader))
       /\ dout.r.cursor = Len(RtmsgBytes) + aligned_size(din.attrs[1].len)

\* s without the NULs it ends in
TrailingNulsStripped(s) ==
    SubSeq(s, 1, CHOOSE k \in 0..Len(s) :
                     /\ k > 0 => s[k] # 0
                     /\ \A j \in (k + 1)..Len(s) : s[j] = 0)

\* C16: deserialize_ascii returns the lossy UTF-8 reading of its input with
\* the trailing NULs stripped and every other character kept; the result
\* never ends in a NUL, and 6C 6F 00 00 00 00 00 00 gives "lo".
C16_AsciiStripsTrailingNuls ==
    (dout.done /\ din.fn = "ascii")
    => /\ dout.r = TrailingNulsStripped(from_utf8_lossy(din.payload))
       /\ dout.r # <<>> => dout.r[Len(dout.r)] # 0
       /\ din.payload = <<108, 111, 0, 0, 0, 0, 0, 0>> => dout.r = <<108, 111>>

\* the attribute of wire tag n was decoded as variant t, read as kind k
DecodedAs(n, t, k) ==
    din.attrs[1].typ = n
    => /\ dout.r.attrs[1].variant = t
       /\ dout.r.attrs[1].kind = k

\* C17: over the tag space 0..61 a link attribute of wire tag n is decoded
\* as the variant whose u16::from value is n, the tag of the spec's table:
\* 50 as MIN_MTU (u32), 51 as MAX_MTU (u32), 53 as ALT_IFNAME (ASCII), 54
\* as PERM_ADDRESS (IP), 56 as PARENT_DEV_NAME (ASCII) and 57 as
\* PARENT_DEV_BUS_NAME (ASCII).
C17_LinkTagTable ==
    (dout.done /\ din.fn = "link_wire" /\ din.attrs[1].typ <= 61)
    => /\ dout.r.kind = "ok"
       /\ Len(dout.r.attrs) = 1
       /\ LinkAttrType_into_u16(dout.r.attrs[1].variant) = din.attrs[1].typ
       /\ DecodedAs(50, "MinMtu", "u32")
       /\ DecodedAs(51, "MaxMtu", "u32")
       /\ DecodedAs(53, "AltInterfaceName", "ascii")
       /\ DecodedAs(54, "PermAddress", "ip")
       /\ DecodedAs(56, "ParentDevName", "ascii")
       /\ DecodedAs(57, "ParentDevBusName", "ascii")

\* C18: the link header is 16 bytes, family at offset 0, a pad byte, type at
\* offset 2, index at offset 4, flags at offset 8, change at offset 12: the
\* Link made from a reply has the index and the type the kernel's header
\* holds at offsets 4 and 2, and an encoded header is 16 bytes with the
\* type at offset 2 and the index at offset 4.
C18_LinkHeaderLayout ==
    /\ (dout.done /\ din.fn = "link_reply")
        => /\ dout.r.kind = "ok"
           /\ dout.r.link.family = din.payload[1]
           /\ dout.r.link.typ = U16At(din.payload, 3)
           /\ dout.r.link.index = SignedLE(SubSeq(din.payload, 5, 8))
    /\ (dout.done /\ din.fn = "link_header")
        => /\ dout.r.ok
           /\ Len(dout.r.bytes) = 16
           /\ dout.r.bytes[1] = din.hdr.family
           /\ U16At(dout.r.bytes, 3) = din.hdr.typ
           /\ SignedLE(SubSeq(dout.r.bytes, 5, 8)) = din.hdr.index

\* C19: get_link("lo") sends an envelope of type 18 with flags 0x1 and
\* length 52 = 16 + 16 + 12 + 8: after the envelope header the 16-byte link
\* header, the IFNAME attribute 09 00 03 00 6C 6F 00 00 00 00 00 00
\* (declared length 9, the name and its NUL), and the EXT_MASK attribute
\* 08 00 1D 00 with a 4-byte mask.
C19_GetLinkRequest ==
    (dout.done /\ din.fn = "get_link" /\ din.payload = <<108, 111>>)
    => /\ U16At(dout.r.wire, 5) = 18
       /\ U16At(dout.r.wire, 7) = 1
       /\ U32At(dout.r.wire, 1) = 52
       /\ Len(dout.r.wire) = 52
       /\ SubSeq(dout.r.wire, 33, 44) = <<9, 0, 3, 0, 108, 111, 0, 0, 0, 0, 0, 0>>
       /\ SubSeq(dout.r.wire, 45, 48) = <<8, 0, 29, 0>>

\* where the attributes of get_link's request start in the bytes sent
IfNameAt == HeaderLen + SizeOfInterfaceInfoMessage

ExtMaskAt == IfNameAt + aligned_size(SizeOfAttrHeader + Len(din.payload))

\* C20: every attribute the library encodes declares the length 4 + the
\* number of payload bytes and occupies align4(length) bytes: the IFNAME and
\* EXT_MASK attributes of get_link for every name, and the attribute of
\* RouteAttrBuilder::build for every value type.
C20_EncodedAttrLength ==
    /\ (dout.done /\ din.fn = "get_link")
        => /\ U16At(dout.r.wire, IfNameAt + 1) = SizeOfAttrHeader + Len(din.payload)
           /\ SubSeq(dout.r.wire, IfNameAt + 5, IfNameAt + 4 + Len(din.payload)) = din.payload
           /\ U16At(dout.r.wire, ExtMaskAt + 1) = SizeOfAttrHeader + SizeOfI32
           /\ U16At(dout.r.wire, ExtMaskAt + 3) = 29
           /\ Len(dout.r.wire) = ExtMaskAt + aligned_size(SizeOfAttrHeader + SizeOfI32)
    /\ (dout.done /\ din.fn = "route_attr" /\ din.typ # <<>> /\ din.value # <<>>)
        => /\ dout.r.kind = "ok"
           /\ dout.r.attr.len = SizeOfAttrHeader + Len(dout.r.attr.value)

\* the optional field is Some exactly when the list holds an attribute of
\* the tag, and then it holds the value of such an attribute
FilledFrom(field, tag) ==
    LET attrs == ValuesOf(din.vals)
    IN  /\ field.some <=> \E i \in 1..Len(attrs) : attrs[i].tag = tag
        /\ field.some => \E i \in 1..Len(attrs) :
                             attrs[i].tag = tag /\ attrs[i].v = field.v

\* C21: build_route copies table, protocol and scope from the route header
\* and fills each optional field from the attribute of its kind: PRIORITY
\* (6), GATEWAY (5), DEST (1), SOURCE (2), PREF_SRC (7), OUT_IFACE (4); a
\* field is None exactly when the list has no attribute of its kind, and
\* the other attributes are dropped.
C21_BuildRouteFields ==
    (dout.done /\ din.fn = "build_route")
    => /\ dout.r.table = din.hdr.table
       /\ dout.r.protocol = din.hdr.protocol
       /\ dout.r.scope = din.hdr.scope
       /\ FilledFrom(dout.r.priority, 6)
       /\ FilledFrom(dout.r.gateway, 5)
       /\ FilledFrom(dout.r.dest, 1)
       /\ FilledFrom(dout.r.source, 2)
       /\ FilledFrom(dout.r.preferred_source, 7)
       /\ FilledFrom(dout.r.output_interface_index, 4)

\* the sub-attributes of a nested stream, read by the stream algorithm: a
\* header of length and sub-tag, the value, the step to the next multiple
\* of four
RECURSIVE SubAttrs(_)
SubAttrs(bytes) ==
    IF Len(bytes) < SizeOfAttrHeader THEN <<>>
    ELSE <<[typ |-> U16At(bytes, 3),
            value |-> SubSeq(bytes, SizeOfAttrHeader + 1, U16At(bytes, 1))]>>
         \o SubAttrs(Drop(bytes, aligned_size(U16At(bytes, 1))))

\* the nested stream of the reply's LINK_INFO attribute
LinkInfoOf(payload) ==
    LET attrs == read_all(Drop(payload, SizeOfInterfaceInfoMessage), FALSE).attrs
        i == CHOOSE i \in 1..Len(attrs) : attrs[i].payload.variant = "LinkInfo"
    IN  SubAttrs(attrs[i].payload.v)

HasLinkInfo(payload) ==
    \E i \in 1..Len(read_all(Drop(payload, SizeOfInterfaceInfoMessage), FALSE).attrs) :
        read_all(Drop(payload, SizeOfInterfaceInfoMessage), FALSE).attrs[i].payload.variant
            = "LinkInfo"

\* C22: the nested stream of a LINK_INFO attribute is decoded by the stream
\* algorithm over the link-info sub-tags: Link.kind is set from the KIND
\* sub-attribute at whatever position it has in the nested stream, and
\* sub-attributes of the other sub-tags (UNSPEC, DATA, XSTATS, SLAVE_KIND,
\* SLAVE_DATA) are decoded without failure or abort.
C22_LinkInfoNested ==
    (dout.done /\ din.fn = "link_reply" /\ HasLinkInfo(din.payload))
    => /\ dout.r.kind = "ok"
       /\ \A i \in 1..Len(LinkInfoOf(din.payload)) :
              LinkInfoOf(din.payload)[i].typ = 1
              => dout.r.link.kind
                     = SomeVal(TrailingNulsStripped(LinkInfoOf(din.payload)[i].value))

\* the Route that list_routes makes of an envelope's payload
RouteOfEnvelope(env) ==
    build_route(read_rtmsg(env.payload, overflow_checks).rtmsg,
                read_rtmsg(env.payload, overflow_checks).attrs)

\* C23: list_routes walks the reply to its terminator: it returns
\* Ok(routes) only after recv has seen the DONE envelope, with one Route per
\* envelope received before DONE, in order; when a recv fails before DONE
\* (a transport error or would-block) the caller gets that error, not a
\* partial list.
C23_ListRoutesToDone ==
    (ret.op = "list_routes" /\ want.clean /\ ~aborted /\ ret.err # "ErrWriteSocket")
    => /\ ret.kind = "ok"
            => /\ want.done
               /\ Len(ret.routes) = Len(want.envs)
               /\ \A i \in 1..Len(want.envs) : ret.routes[i] = RouteOfEnvelope(want.envs[i])
       /\ ~want.done => ret.kind = "err"

\* decoding the attributes from cursor on meets a codec error before the
\* end of the slice
RECURSIVE AttrError(_, _)
AttrError(slice, cursor) ==
    LET n == CHOOSE out \in {try_next(slice, c, overflow_checks) : c \in {cursor}} : TRUE
    IN  IF n.kind = "some" THEN AttrError(slice, n.cursor) ELSE n.kind = "err"

\* C24: in get_link a codec error raised while decoding an attribute of the
\* reply (unknown tag, payload of the wrong width, length overrunning the
\* slice) is returned to the caller as Err: get_link never returns
\* Ok(Some(link)) built from the attributes before the failed one.
C24_GetLinkCodecError ==
    (dout.done /\ din.fn = "link_reply"
     /\ AttrError(Drop(din.payload, SizeOfInterfaceInfoMessage), 0))
    => dout.r.kind = "err"

\* the type in the header of the envelope under test, and the length it
\* declares
EnvelopeType == U16At(din.payload, 5)

EnvelopeLen == U32At(din.payload, 1)

\* C25: recv_gen with the link message type yields a value for every first
\* reply envelope: Ok(None) with has_remaining_reads cleared when the header
\* type is DONE (3), an envelope or an error value when the type is ERROR
\* (2), NOOP (1), OVERRUN (4) or any type outside 16..19; it never aborts.
C25_RecvGenControlTypes ==
    (dout.done /\ din.fn = "recv_gen" /\ EnvelopeLen = Len(din.payload))
    => /\ ~dout.r.panic
       /\ EnvelopeType = MsgDone => (dout.r.ret.kind = "none" /\ ~dout.r.hrr)
       /\ EnvelopeType # MsgDone => dout.r.ret.kind \in {"some", "err"}

\* C30: recv and recv_gen compute the payload length header.length - 16
\* without going below zero for every header they read: a declared length
\* between 1 and 15 never leads to a wrapped or negative payload length,
\* and every envelope returned has payload.len() = header.length - 16 with
\* header.length >= 16.
C30_PayloadLenNotBelowZero ==
    (dout.done /\ (din.fn = "recv" \/ (din.fn = "recv_gen" /\ EnvelopeType \in 16..19)))
    => /\ EnvelopeLen \in 1..(HeaderLen - 1)
            => (~dout.r.panic /\ PayloadLen(EnvelopeLen) >= 0)
       /\ dout.r.ret.kind = "some"
            => /\ EnvelopeLen >= HeaderLen
               /\ Len(dout.r.ret.payload) = EnvelopeLen - HeaderLen

\* the sequence field of the envelope written first in the last datagram
FirstWireSeq == [hi |-> U16At(tx[Len(tx)], 11), lo |-> U16At(tx[Len(tx)], 9)]

\* C26: a send whose write or flush to the transport fails returns an error
\* and leaves the dialogue state as it was: sequence is not incremented and
\* has_remaining_reads keeps its value; the next successful send carries
\* the sequence number of the failed one.
C26_FailedSendKeepsDialogue ==
    [][/\ ret'.err = "ErrWriteSocket"
            => (ret'.kind = "err" /\ seq' = seq
                /\ has_remaining_reads' = has_remaining_reads)
       /\ (ret.err = "ErrWriteSocket" /\ nsent' # nsent)
            => (WireSeq' = seq /\ FirstWireSeq' = seq /\ seq' = SeqInc(seq))]_vars

\* a send failed with the flag clear, and the send after it went out with
\* the sequence number the failed one had
C26_Witness ==
    /\ ret.op = "send"
    /\ ret.kind = "ok"
    /\ nops = 2
    /\ nsent = U32Of(1)
    /\ seq = U32Of(1)
    /\ WireSeq = U32Of(0)
    /\ Len(tx[1]) = 2 * (HeaderLen + 5)

\* C27: serialize_aligned(v) returns the serialized bytes of v followed only
\* by zero bytes, with total length align4(size_of(T)), a multiple of 4, for
\* every serializable value append accepts (12 bytes for the 9-byte route
\* header); the padding length it computes is never negative.
C27_SerializeAlignedPads ==
    (dout.done /\ din.fn = "append")
    => /\ PaddingLen(din.value[1].bytes, din.value[1].size) >= 0
       /\ dout.r.ok
       /\ Len(dout.r.bytes) = aligned_size(din.value[1].size)
       /\ Len(dout.r.bytes) % 4 = 0
       /\ IsPrefix(din.value[1].bytes, dout.r.bytes)
       /\ \A i \in (Len(din.value[1].bytes) + 1)..Len(dout.r.bytes) : dout.r.bytes[i] = 0
       /\ din.value[1].size = 9 => Len(dout.r.bytes) = 12

\* C28: the looped write send_sock delivers a whole message under partial
\* writes: for every sequence of short counts the endpoint returns, the
\* bytes it accepted across the turns are data[0..len] in order, each byte
\* once, and the loop ends when the last byte has been accepted.
C28_SendSockDeliversAll ==
    din.fn = "send_sock"
    => /\ IsPrefix(dout.r.handed, din.payload)
       /\ (dout.done /\ dout.r.kind = "ok") => dout.r.handed = din.payload
       /\ (dout.r.handed = din.payload /\ dout.r.turns > 0) => dout.done

\* what the drain holds and returns, by what the endpoint has reported
DrainSafe ==
    din.fn = "read_until_block"
    => /\ dout.r.kind \in {"run", "ok"} => dout.r.bytes = Flatten(dout.r.chunks)
       /\ dout.r.last = "eagain" => dout.r.kind = "ok"
       /\ dout.r.last = "err" => (dout.r.kind = "err" /\ dout.r.bytes = <<>>)
       /\ dout.done <=> dout.r.last \in {"eagain", "err"}

\* C29: read_until_block returns Ok with the concatenation, in arrival
\* order, of every chunk read before the first would-block (EAGAIN),
\* returns Err for any other read error without the bytes read so far, and
\* terminates if and only if the endpoint reports would-block or an error:
\* it returns on no other result, and it does return once the endpoint has
\* no more datagrams to deliver.
C29_DrainUntilWouldBlock ==
    /\ []DrainSafe
    /\ (din.fn = "read_until_block") ~> dout.done

\* the drain returned Ok after three chunks in two sizes
C29_Witness ==
    /\ din.fn = "read_until_block"
    /\ dout.done
    /\ dout.r.kind = "ok"
    /\ dout.r.chunks = << <<2, 3>>, <<1>>, <<2, 3>> >>
    /\ dout.r.bytes = <<2, 3, 1, 2, 3>>

================================================================================
